---- MODULE Spec2Model ----
(***************************************************************************)
(* Relational store of the pharmaceutical reference data service:          *)
(* compounds, similarity rows (compound_similarities), products and        *)
(* ingredient mappings (product_ingredients), with the REST operations     *)
(* that change them.                                                       *)
(*                                                                         *)
(* Scores are modelled in hundredths (0.7 is 70).  Primary keys are handed  *)
(* out by a counter and never reused.  A compound is a primary key with    *)
(* its row of columns (compoundRows); a product is modelled by its primary *)
(* key and its permit number.  A similarity row and an ingredient mapping  *)
(* are modelled by a record of their columns and identified by their       *)
(* unique key: (target_compound, similar_compound),                        *)
(* (product, raw_ingredient_name).  A text value is a sequence of          *)
(* one-character strings, so that trimming, case folding and substring     *)
(* search are computed on it.                                              *)
(***************************************************************************)
EXTENDS Integers, FiniteSets, Sequences, TLC

\* ---- bounds ----
MaxCompounds == 3
MaxSimilarities == 2
MaxProducts == 2
MaxIngredients == 2

\* ---- input domains ----
CompoundIdInputs == 1..MaxCompounds
ProductIdInputs == 1..MaxProducts
Scores == {70, 90}
Max(S) == CHOOSE x \in S : \A y \in S : y <= x
ScoreInputs == Scores \cup {110}
MinScoreInputs == {0, 70, 80, 100}
LimitInputs == (0 - 1)..(MaxSimilarities + 1)
RawNames == {"aspirin", "lactose"}
NormalizationStatuses == {"PENDING", "SUCCESS"}
\* a nullable column holds a set of at most one value; the empty set is null
NULL == {}
\* request bodies of PUT/PATCH /similarities/{id}/ : each writable field is
\* present or omitted (PUT always carries similarity_score)
UpdateBodies ==
    [similarity_score : ScoreInputs] \cup [is_current : BOOLEAN] \cup
    [similarity_score : ScoreInputs, is_current : BOOLEAN]
\* no immediately preceding call
NoCall == <<>>
\* no queryset has been handed to a filtering service
NoScope == [table |-> "", rows |-> {}]

\* ---- text ----
UpperCase ==
    <<"A", "B", "C", "D", "E", "F", "G", "H", "I", "J", "K", "L", "M",
      "N", "O", "P", "Q", "R", "S", "T", "U", "V", "W", "X", "Y", "Z">>
LowerCase ==
    <<"a", "b", "c", "d", "e", "f", "g", "h", "i", "j", "k", "l", "m",
      "n", "o", "p", "q", "r", "s", "t", "u", "v", "w", "x", "y", "z">>
Digits == <<"0", "1", "2", "3", "4", "5", "6", "7", "8", "9">>
Whitespace == {" "}

\* str.lower()
LowerChar(ch) ==
    IF \E i \in DOMAIN UpperCase : UpperCase[i] = ch
    THEN LowerCase[CHOOSE i \in DOMAIN UpperCase : UpperCase[i] = ch]
    ELSE ch

Lower(t) == [i \in 1..Len(t) |-> LowerChar(t[i])]

\* str.upper()
UpperChar(ch) ==
    IF \E i \in DOMAIN LowerCase : LowerCase[i] = ch
    THEN UpperCase[CHOOSE i \in DOMAIN LowerCase : LowerCase[i] = ch]
    ELSE ch

Upper(t) == [i \in 1..Len(t) |-> UpperChar(t[i])]

\* str.strip()
RECURSIVE LStrip(_)
LStrip(t) == IF Len(t) > 0 /\ t[1] \in Whitespace THEN LStrip(Tail(t)) ELSE t

RECURSIVE RStrip(_)
RStrip(t) ==
    IF Len(t) > 0 /\ t[Len(t)] \in Whitespace THEN RStrip(SubSeq(t, 1, Len(t) - 1)) ELSE t

Strip(t) == RStrip(LStrip(t))

\* t has q as a substring (the empty text is a substring of every text)
Contains(t, q) ==
    \E i \in 0..(Len(t) - Len(q)) : SubSeq(t, i + 1, i + Len(q)) = q

\* the lookups __iexact and __icontains
IExact(t, q) == Lower(t) = Lower(q)
IContains(t, q) == Contains(Lower(t), Lower(q))

\* int(text) of a trimmed text: an optional sign and decimal digits
IsDigit(ch) == \E i \in DOMAIN Digits : Digits[i] = ch
DigitValue(ch) == (CHOOSE i \in DOMAIN Digits : Digits[i] = ch) - 1
AllDigits(t) == Len(t) > 0 /\ \A i \in 1..Len(t) : IsDigit(t[i])

RECURSIVE Decimal(_)
Decimal(t) ==
    IF Len(t) = 0 THEN 0
    ELSE 10 * Decimal(SubSeq(t, 1, Len(t) - 1)) + DigitValue(t[Len(t)])

ParsesAsInt(t) ==
    \/ AllDigits(t)
    \/ Len(t) > 1 /\ t[1] \in {"+", "-"} /\ AllDigits(Tail(t))

IntOf(t) ==
    IF t[1] = "-" THEN 0 - Decimal(Tail(t))
    ELSE IF t[1] = "+" THEN Decimal(Tail(t))
    ELSE Decimal(t)

VARIABLES
    compounds,        \* primary keys of the rows of table compounds
    compoundRows,     \* the columns of each row of table compounds, by primary key
    nextCompoundId,   \* next primary key of table compounds
    sims,             \* rows of table compound_similarities
    products,         \* primary keys of the rows of table products
    nextProductId,    \* next primary key of table products
    ingredients,      \* rows of table product_ingredients
    productRows,      \* the columns of each row of table products, by primary key
    pending,          \* write requests that passed validation and have not written yet
    scope,            \* the queryset handed to a filtering service
    lastOp            \* the last request handled and its response

vars ==
    <<compounds, compoundRows, nextCompoundId, sims, products, nextProductId,
      ingredients, productRows, pending, scope, lastOp>>

\* what a request that is handled in one step leaves alone: the requests in
\* flight and the queryset argument of a filtering service
aside == <<pending, scope>>

\* The response of the last request.
\*   op      the operation
\*   a       the primary key the response names (0 when it names none)
\*   ret     the status code, or the count an invalidation returns
\*   detail  the error of a 400 or 500 response, or the table a filter
\*           call ran on
\*   prev    the count returned by the immediately preceding request when
\*           that request was an invalidation of the same id, else NoCall
\*   touched the number of dependent rows the delete of a compound or of a
\*           product removed or set to null (the database's row count); for
\*           a search, a list, a filter call or a statistics request, the
\*           number of rows the answer holds or counts
Op(op, a, ret, detail) ==
    [op |-> op, a |-> a, ret |-> ret, detail |-> detail, prev |-> NoCall, touched |-> 0]

\* no response is waiting to be read
Idle == Op("none", 0, 0, "")

\* Requests are handled one at a time, each to completion.  lastOp holds the
\* response of the request just handled until the client has read it; the
\* next request is taken up after that.  No handler reads lastOp.
Ready == lastOp = Idle

\* ---- similarity rows ----
\* Q(target_compound_id=c) | Q(similar_compound_id=c)
Involves(r, c) == r.target_compound = c \/ r.similar_compound = c

\* a row of table similarity analyses; fingerprint_method takes the default
\* of the model when the request that creates the row does not name one
SimilarityAnalysis(t, s, score, current) ==
    [target_compound |-> t, similar_compound |-> s,
     similarity_score |-> score, is_current |-> current,
     fingerprint_method |-> "Morgan_r2_2048"]

\* MinValueValidator(0.0), MaxValueValidator(1.0)
ValidScore(score) == score >= 0 /\ score <= 100

\* a validate() that accepts every pair
AnyPairAccepted(t, s) == TRUE

\* SimilarityAnalysisCreateSerializer.validate
NotSelfSimilarity(t, s) == t # s

\* no uniqueness constraint at all
EveryPairIsFree(t, s) == TRUE

\* unique_together = ('target_compound', 'similar_compound')
PairIsFree(t, s) ==
    ~ \E r \in sims : r.target_compound = t /\ r.similar_compound = s

Init ==
    /\ compounds = {}
    /\ compoundRows = [c \in {} |-> NULL]
    /\ nextCompoundId = 1
    /\ sims = {}
    /\ products = {}
    /\ nextProductId = 1
    /\ ingredients = {}
    /\ productRows = [p \in {} |-> NULL]
    /\ pending = {}
    /\ scope = NoScope
    /\ lastOp = Idle

\* ---- compounds ----
\* A row of table compounds as POST /compounds/ inserts it: the columns the
\* request cannot write take their defaults (fingerprint_morgan null,
\* is_valid true).  A nullable column holds NULL or a one-element set.
Compound(name, cid, smiles, inchi, iupac, weight) ==
    [standard_name |-> name, cid |-> cid, smiles |-> smiles, inchi |-> inchi,
     iupac_name |-> iupac, molecular_weight |-> weight,
     fingerprint_morgan |-> NULL, is_valid |-> TRUE]

\* the characters validate_smiles accepts
SmilesChars ==
    {"C", "N", "O", "P", "S", "F", "I", "B", "r", "c", "n", "o", "p", "s", "f", "i",
     "b", "l", "0", "1", "2", "3", "4", "5", "6", "7", "8", "9", "=", "#", "@", "+",
     "\\", "/", "-", "[", "]", "(", ")", ".", "%", "*"}

NameExists(name, others) ==
    \E c \in others : compoundRows[c].standard_name = name

\* a cid lookup that finds no row
CidNeverExists(cid, others) == FALSE

CidExists(cid, others) ==
    \E c \in others : compoundRows[c].cid = {cid}

\* CompoundCreateSerializer: validate_standard_name, validate_cid and
\* validate_smiles, in the order of Meta.fields; the response lists the error
\* of every failing field, detail names the first.
CreateCompoundError(row) ==
    IF NameExists(row.standard_name, compounds) THEN "standard_name_exists"
    ELSE IF Len(row.standard_name) < 2 THEN "standard_name_too_short"
    ELSE IF \E v \in row.cid : CidExists(v, compounds) THEN "cid_exists"
    ELSE IF \E v \in row.cid : v <= 0 THEN "cid_not_positive"
    ELSE IF \E t \in row.smiles : \E i \in 1..Len(t) : t[i] \notin SmilesChars
         THEN "smiles_invalid"
    ELSE ""

\* POST /compounds/
CreateCompound(row) ==
    /\ Ready
    /\ IF CreateCompoundError(row) = ""
       THEN /\ nextCompoundId <= MaxCompounds
            /\ compounds' = compounds \cup {nextCompoundId}
            /\ compoundRows' =
                   [c \in compounds \cup {nextCompoundId} |->
                       IF c = nextCompoundId THEN row ELSE compoundRows[c]]
            /\ nextCompoundId' = nextCompoundId + 1
            /\ lastOp' = Op("create_compound", nextCompoundId, 201, "")
       ELSE /\ UNCHANGED <<compounds, compoundRows, nextCompoundId>>
            /\ lastOp' = Op("create_compound", 0, 400, CreateCompoundError(row))
    /\ UNCHANGED <<sims, products, productRows, nextProductId, ingredients, aside>>

\* a request body: the fields it carries, each with its value
Merge(row, body) ==
    [f \in DOMAIN row |-> IF f \in DOMAIN body THEN body[f] ELSE row[f]]

\* CompoundUpdateSerializer: the CharField of the model refuses a blank
\* standard_name; then validate_standard_name and validate_cid, each
\* excluding the row being updated
UpdateCompoundError(c, body) ==
    IF "standard_name" \in DOMAIN body /\ Len(body.standard_name) = 0
    THEN "standard_name_blank"
    ELSE IF "standard_name" \in DOMAIN body /\ NameExists(body.standard_name, compounds \ {c})
    THEN "standard_name_exists"
    ELSE IF "cid" \in DOMAIN body /\ \E v \in body.cid : CidExists(v, compounds \ {c})
    THEN "cid_exists"
    ELSE ""

\* PUT/PATCH /compounds/{id}/ : the fields of the body are written to the row
\* and the row is saved; nothing else is written
UpdateCompound(c, body) ==
    /\ Ready
    /\ c \in compounds
    /\ IF UpdateCompoundError(c, body) = ""
       THEN /\ compoundRows' = [compoundRows EXCEPT ![c] = Merge(@, body)]
            /\ lastOp' = Op("update_compound", c, 200, "")
       ELSE /\ UNCHANGED compoundRows
            /\ lastOp' = Op("update_compound", c, 400, UpdateCompoundError(c, body))
    /\ UNCHANGED <<compounds, nextCompoundId, sims, products, productRows,
                   nextProductId, ingredients, aside>>

\* the row of a client that names its compounds by sequence number and sends
\* no other column
PlainName(k) == [i \in 1..(k + 1) |-> "c"]
PlainCompound(k) == Compound(PlainName(k), NULL, NULL, NULL, NULL, NULL)

\* POST /similarities/ : SimilarityAnalysisCreateSerializer, then the insert.
\* The endpoints must be existing compounds (PrimaryKeyRelatedField), the
\* score must pass the model validators, the ordered pair must be unused
\* (unique_together) and the two endpoints must differ (validate).
\* The serializer validates the fields first, then runs the unique_together
\* validator, then validate(); the first failure is the error reported.
CreateError(t, s, score) ==
    IF ~ (t \in compounds /\ s \in compounds /\ ValidScore(score)) THEN "invalid_field"
    ELSE IF ~ PairIsFree(t, s) THEN "unique_together"
    ELSE IF ~ NotSelfSimilarity(t, s) THEN "no_self_similarity"
    ELSE ""

CreateSimilarity(t, s, score) ==
    /\ Ready
    /\ IF CreateError(t, s, score) = ""
       THEN /\ Cardinality(sims) < MaxSimilarities
            /\ sims' = sims \cup {SimilarityAnalysis(t, s, score, TRUE)}
            /\ lastOp' = Op("create_similarity", 0, 201, "")
       ELSE /\ sims' = sims
            /\ lastOp' = Op("create_similarity", 0, 400, CreateError(t, s, score))
    /\ UNCHANGED <<compounds, compoundRows, nextCompoundId, products, productRows,
                   nextProductId, ingredients, aside>>

\* PUT/PATCH /similarities/{id}/ : SimilarityAnalysisDetailSerializer.
\* target_compound and similar_compound are read-only; similarity_score,
\* fingerprint_method and is_current are writable; a field the request omits
\* keeps its value.
Has(body, field) == field \in DOMAIN body

\* the fields of SimilarityAnalysisDetailSerializer a request can write
SimilarityWritable == {"similarity_score", "fingerprint_method", "is_current"}

UpdateSimilarity(r, body) ==
    /\ Ready
    /\ r \in sims
    /\ IF Has(body, "similarity_score") => ValidScore(body.similarity_score)
       THEN /\ sims' = (sims \ {r}) \cup
                   {[f \in DOMAIN r |->
                        IF f \in SimilarityWritable /\ Has(body, f) THEN body[f] ELSE r[f]]}
            /\ lastOp' = Op("update_similarity", 0, 200, "")
       ELSE /\ sims' = sims
            /\ lastOp' = Op("update_similarity", 0, 400, "invalid_field")
    /\ UNCHANGED <<compounds, compoundRows, nextCompoundId, products, productRows,
                   nextProductId, ingredients, aside>>

\* DELETE /similarities/{id}/ : ModelViewSet.destroy
DestroySimilarity(r) ==
    /\ Ready
    /\ r \in sims
    /\ sims' = sims \ {r}
    /\ lastOp' = Op("destroy_similarity", 0, 204, "")
    /\ UNCHANGED <<compounds, compoundRows, nextCompoundId, products, productRows,
                   nextProductId, ingredients, aside>>

\* the filter with its second Q dropped: only rows that have c as target
InvalidateMatchTargetOnly(c) ==
    {r \in sims : r.target_compound = c /\ r.is_current}

\* the filter without is_current=True: every row that involves c
InvalidateMatchAnyCurrency(c) == {r \in sims : Involves(r, c)}

\* filter(Q(target_compound_id=c) | Q(similar_compound_id=c), is_current=True)
InvalidateMatch(c) == {r \in sims : Involves(r, c) /\ r.is_current}

\* an invalidation that deletes the rows of the filter
InvalidateByDelete(c) == sims \ InvalidateMatch(c)

\* an update that rewrites the matched rows whole, their label reset to the
\* default
InvalidateResultRelabelled(c) ==
    (sims \ InvalidateMatch(c)) \cup
    {SimilarityAnalysis(r.target_compound, r.similar_compound, r.similarity_score, FALSE) :
        r \in InvalidateMatch(c)}

\* .update(is_current=False) on the rows of the filter, the others kept
InvalidateResult(c) ==
    (sims \ InvalidateMatch(c)) \cup
    {[r EXCEPT !.is_current = FALSE] : r \in InvalidateMatch(c)}

\* POST /similarities/invalidate/ {"compound_id": c}
\* A client may repeat its invalidation at once, before it reads the response
\* of the first call; the second response then carries the first count in prev.
InvalidateCompoundSimilarities(c) ==
    /\ Ready \/ (lastOp.op = "invalidate" /\ lastOp.a = c /\ lastOp.prev = NoCall)
    /\ sims' = InvalidateResult(c)
    /\ lastOp' = [Op("invalidate", c, Cardinality(InvalidateMatch(c)), "") EXCEPT
                      !.prev = IF lastOp.op = "invalidate" /\ lastOp.a = c
                               THEN <<lastOp.ret>> ELSE NoCall]
    /\ UNCHANGED <<compounds, compoundRows, nextCompoundId, products, productRows,
                   nextProductId, ingredients, aside>>

\* a cascade on target_compound only
CascadeTargetOnly(c) == {r \in sims : r.target_compound # c}

\* on_delete=models.CASCADE of target_compound and similar_compound
CascadeSimilarities(c) == {r \in sims : ~ Involves(r, c)}

\* on_delete=models.CASCADE in place of SET_NULL
CascadeIngredientsOfCompound(c) == {g \in ingredients : g.compound # {c}}

\* on_delete=models.SET_NULL of ProductIngredient.compound
SetNullIngredients(c) ==
    {IF g.compound = {c} THEN [g EXCEPT !.compound = NULL] ELSE g : g \in ingredients}

\* DELETE /compounds/{id}/
DeleteCompound(c) ==
    /\ Ready
    /\ c \in compounds
    /\ compounds' = compounds \ {c}
    /\ sims' = CascadeSimilarities(c)
    /\ ingredients' = SetNullIngredients(c)
    /\ lastOp' = [Op("delete_compound", c, 204, "") EXCEPT
                      !.touched = Cardinality(sims \ CascadeSimilarities(c)) +
                                  Cardinality({g \in ingredients : g.compound = {c}})]
    /\ compoundRows' = [c2 \in compounds \ {c} |-> compoundRows[c2]]
    /\ UNCHANGED <<nextCompoundId, products, productRows, nextProductId, aside>>

\* return Response(...): the client reads the response
Deliver ==
    /\ ~ Ready
    /\ lastOp' = Idle
    /\ UNCHANGED <<compounds, compoundRows, nextCompoundId, sims, products, productRows,
                   nextProductId, ingredients, aside>>

\* ---- get_similar_compounds ----
Min(x, y) == IF x <= y THEN x ELSE y

\* the filter without is_current=True
SimilarMatchAnyCurrency(c, min_score) ==
    {r \in sims : Involves(r, c) /\ r.similarity_score >= min_score}

\* filter(Q(target_compound=c) | Q(similar_compound=c),
\*        similarity_score__gte=min_score, is_current=True)
SimilarMatch(c, min_score) ==
    {r \in sims : Involves(r, c) /\ r.similarity_score >= min_score /\ r.is_current}

\* order_by("-similarity_score"): the rows of S in an order of non-increasing
\* score; rows of equal score come in whatever order the database yields
Orderings(S) ==
    {q \in [1..Cardinality(S) -> S] :
        /\ \A i, j \in 1..Cardinality(S) : i # j => q[i] # q[j]
        /\ \A i, j \in 1..Cardinality(S) :
              i < j => q[i].similarity_score >= q[j].similarity_score}

\* [:limit] ; a negative limit is rejected by the queryset (ValueError)
Slice(q, limit) == SubSeq(q, 1, Min(limit, Len(q)))

\* the rows the loop of get_similar_compounds iterates over, in order
SimilarRows(c, min_score, limit) ==
    {Slice(q, limit) : q \in Orderings(SimilarMatch(c, min_score))}

\* the unwrap that always surfaces the comparison side
UnwrapSimilarSide(c, r) == r.similar_compound

\* if sim.target_compound_id == compound.id: other = sim.similar_compound
\* else: other = sim.target_compound
Unwrap(c, r) ==
    IF r.target_compound = c THEN r.similar_compound ELSE r.target_compound

SimilarCompoundResult(c, r) ==
    [id |-> Unwrap(c, r), similarity_score |-> r.similarity_score]

\* the possible outcomes of get_similar_compounds(c, min_score, limit):
\* raised when the slice rejects the limit, otherwise the rows the loop
\* iterated over and the result list built from them
GetSimilarCompounds(c, min_score, limit) ==
    IF limit < 0
    THEN {[raised |-> TRUE, rows |-> <<>>, results |-> <<>>]}
    ELSE {[raised |-> FALSE, rows |-> q,
           results |-> [i \in 1..Len(q) |-> SimilarCompoundResult(c, q[i])]] :
            q \in SimilarRows(c, min_score, limit)}

\* ---- products and ingredient mappings ----
ProductIngredient(p, comp, raw, status) ==
    [product |-> p, compound |-> comp,
     raw_ingredient_name |-> raw, normalization_status |-> status]

\* unique_together = ('product', 'raw_ingredient_name')
IngredientNameIsFree(p, raw) ==
    ~ \E g \in ingredients : g.product = p /\ g.raw_ingredient_name = raw

\* a row of table products as ProductCreateSerializer stores it: the columns
\* the request does not carry take their defaults
Product(permit) ==
    [permit_number |-> permit, product_name |-> <<"p", "n">>, manufacturer |-> NULL,
     is_combination |-> FALSE, source |-> "MFDS", last_synced_at |-> NULL]

PermitExists(permit) ==
    \E p \in products : productRows[p].permit_number = permit

\* POST /products/ : ProductCreateSerializer.validate_permit_number, then
\* the insert
CreateProduct(row) ==
    /\ Ready
    /\ IF ~ PermitExists(row.permit_number)
       THEN /\ nextProductId <= MaxProducts
            /\ products' = products \cup {nextProductId}
            /\ productRows' =
                   [p \in products \cup {nextProductId} |->
                       IF p = nextProductId THEN row ELSE productRows[p]]
            /\ nextProductId' = nextProductId + 1
            /\ lastOp' = Op("create_product", nextProductId, 201, "")
       ELSE /\ UNCHANGED <<products, productRows, nextProductId>>
            /\ lastOp' = Op("create_product", 0, 400, "permit_number_exists")
    /\ UNCHANGED <<compounds, compoundRows, nextCompoundId, sims, ingredients, aside>>

\* the row of a client that numbers its permits by sequence number
PlainProduct(k) == Product([i \in 1..k |-> "7"])

\* a delete that removes the mappings of every product
CascadeAllIngredients(p) == {}

\* on_delete=models.CASCADE of ProductIngredient.product
CascadeIngredients(p) == {g \in ingredients : g.product # p}

\* DELETE /products/{id}/
DeleteProduct(p) ==
    /\ Ready
    /\ p \in products
    /\ products' = products \ {p}
    /\ ingredients' = CascadeIngredients(p)
    /\ lastOp' = [Op("delete_product", p, 204, "") EXCEPT
                      !.touched = Cardinality(ingredients \ CascadeIngredients(p))]
    /\ productRows' = [p2 \in products \ {p} |-> productRows[p2]]
    /\ UNCHANGED <<compounds, compoundRows, nextCompoundId, sims, nextProductId, aside>>

\* A mapping is inserted by the ingestion of a product's ingredient list (the
\* REST resource is read-only; the admin site registers the model).  The
\* product must exist, the compound is null or an existing compound, and
\* (product, raw_ingredient_name) must be unused.
CreateIngredient(p, comp, raw, status) ==
    /\ Ready
    /\ p \in products
    /\ comp \subseteq compounds
    /\ IngredientNameIsFree(p, raw)
    /\ Cardinality(ingredients) < MaxIngredients
    /\ ingredients' = ingredients \cup {ProductIngredient(p, comp, raw, status)}
    /\ lastOp' = Op("create_ingredient", p, 201, "")
    /\ UNCHANGED <<compounds, compoundRows, nextCompoundId, sims, products, productRows,
                   nextProductId, aside>>

\* a nullable foreign key to a compound: null or one id
CompoundRefInputs == {NULL} \cup {{c} : c \in CompoundIdInputs}

NextProducts ==
    \/ \E row \in {PlainCompound(nextCompoundId)} : CreateCompound(row)
    \/ \E c \in CompoundIdInputs : DeleteCompound(c)
    \/ \E row \in {PlainProduct(nextProductId)} : CreateProduct(row)
    \/ \E p \in ProductIdInputs : DeleteProduct(p)
    \/ \E p \in ProductIdInputs, comp \in CompoundRefInputs,
          raw \in RawNames, status \in NormalizationStatuses :
          CreateIngredient(p, comp, raw, status)
    \/ Deliver

Next ==
    \/ \E row \in {PlainCompound(nextCompoundId)} : CreateCompound(row)
    \/ \E c \in CompoundIdInputs : DeleteCompound(c)
    \/ \E t \in CompoundIdInputs, s \in CompoundIdInputs, score \in ScoreInputs :
          CreateSimilarity(t, s, score)
    \/ \E r \in sims, body \in UpdateBodies : UpdateSimilarity(r, body)
    \/ \E r \in sims : DestroySimilarity(r)
    \/ \E c \in CompoundIdInputs : InvalidateCompoundSimilarities(c)
    \/ Deliver

\* The similarity store and the compounds it refers to.
Spec == Init /\ [][Next]_vars

\* ---- compounds whose structure columns are rewritten ----
\* the rows and bodies a client sends: a structure at creation, then updates
\* of smiles or of inchi
StructureRows(k) == {Compound(PlainName(k), NULL, {<<"C">>}, NULL, NULL, NULL)}
StructureBodies ==
    [smiles : {{<<"C">>}, {<<"C", "C">>}}] \cup [inchi : {{<<"I">>}}]

NextStructure ==
    \/ \E row \in StructureRows(nextCompoundId) : CreateCompound(row)
    \/ \E c \in CompoundIdInputs, body \in StructureBodies : UpdateCompound(c, body)
    \/ \E t \in CompoundIdInputs, s \in CompoundIdInputs, score \in {Max(Scores)} :
          CreateSimilarity(t, s, score)
    \/ \E c \in CompoundIdInputs : InvalidateCompoundSimilarities(c)
    \/ Deliver

\* Compounds with structure columns, their updates, and the similarity rows.
SpecStructure == Init /\ [][NextStructure]_vars

\* The product store, its ingredient mappings and the compounds they refer to.
SpecProducts == Init /\ [][NextProducts]_vars

\* ==== properties ====
SamePair(r1, r2) ==
    r1.target_compound = r2.target_compound /\ r1.similar_compound = r2.similar_compound

\* C1: an invalidation of compound c leaves no row that involves c current,
\* keeps every such row as a stale row, and returns the number of rows whose
\* is_current went from true to false.
C1_InvalidateMarksEveryRowStale ==
    [][lastOp'.op = "invalidate" =>
        LET c == lastOp'.a
            changed == {r \in sims : r.is_current /\
                          \E r2 \in sims' : SamePair(r, r2) /\ ~ r2.is_current}
        IN /\ \A r \in sims' : Involves(r, c) => ~ r.is_current
           /\ \A r \in sims : (Involves(r, c) /\ r.is_current) => r \in changed
           /\ lastOp'.ret = Cardinality(changed)]_vars

\* an invalidation has just turned stale a row in each direction
C1_Witness ==
    /\ lastOp.op = "invalidate"
    /\ lastOp.ret >= 2
    /\ \E r1, r2 \in sims :
          /\ r1.target_compound = lastOp.a /\ ~ r1.is_current
          /\ r2.similar_compound = lastOp.a /\ ~ r2.is_current

\* C2: an invalidation of c that immediately follows an invalidation of c
\* returns 0 and changes nothing in the store.
C2_InvalidateIdempotent ==
    [][(lastOp.op = "invalidate" /\ lastOp'.op = "invalidate" /\ lastOp'.a = lastOp.a) =>
        /\ lastOp'.ret = 0
        /\ sims' = sims
        /\ UNCHANGED <<compounds, nextCompoundId, products, nextProductId, ingredients>>]_vars

\* the second of two consecutive invalidations, the first of which changed rows
C2_Witness ==
    /\ lastOp.op = "invalidate"
    /\ Len(lastOp.prev) = 1
    /\ lastOp.prev[1] >= 1
    /\ lastOp.ret = 0

\* C3: when the request is taken up in any state of the store,
\* the rows get_similar_compounds returns are current rows that involve c
\* with score >= min_score, each at most once, in non-increasing score order,
\* at most limit of them; a qualifying row is left out only when limit rows
\* are returned, and then its score is no higher than any returned score.
C3_GetSimilarContract ==
    Ready => \A c \in compounds, m \in MinScoreInputs, l \in LimitInputs :
        /\ GetSimilarCompounds(c, m, l) # {}
        /\ \A o \in GetSimilarCompounds(c, m, l) :
              ~ o.raised =>
                  LET n == Len(o.rows)
                      returned == {o.rows[i] : i \in 1..n}
                  IN /\ \A r \in returned :
                           /\ r \in sims
                           /\ r.is_current
                           /\ r.target_compound = c \/ r.similar_compound = c
                           /\ r.similarity_score >= m
                     /\ Cardinality(returned) = n
                     /\ Len(o.results) = n
                     /\ \A i \in 1..n :
                           o.results[i].similarity_score = o.rows[i].similarity_score
                     /\ \A i \in 1..n : \A j \in 1..n :
                           i < j => o.results[i].similarity_score >=
                                    o.results[j].similarity_score
                     /\ n <= l
                     /\ \A r \in sims :
                           (/\ r.is_current
                            /\ r.target_compound = c \/ r.similar_compound = c
                            /\ r.similarity_score >= m
                            /\ r \notin returned)
                           => /\ n = l
                              /\ \A x \in returned : r.similarity_score <= x.similarity_score

\* a compound with more qualifying rows, of different scores, than the limit,
\* and a call that returns the higher one
C3_Witness ==
    \E c \in compounds :
        /\ \E r1, r2 \in SimilarMatch(c, 70) :
              r1.similarity_score > r2.similarity_score
        /\ \E o \in GetSimilarCompounds(c, 70, 1) :
              ~ o.raised /\ Len(o.results) = 1 /\ o.results[1].similarity_score = 90

\* C4: when the request is taken up in any state of the store, each result of
\* get_similar_compounds(c) carries the endpoint of its row that is not c, and
\* never c itself.
C4_RoleAwareUnwrap ==
    Ready => \A c \in compounds, m \in MinScoreInputs, l \in LimitInputs :
        \A o \in GetSimilarCompounds(c, m, l) :
            \A i \in 1..Len(o.results) :
                /\ o.results[i].id # c
                /\ o.rows[i].target_compound = c =>
                       o.results[i].id = o.rows[i].similar_compound
                /\ o.rows[i].similar_compound = c =>
                       o.results[i].id = o.rows[i].target_compound

\* a queried compound that is the comparison side of a returned row
C4_Witness ==
    \E c \in compounds :
        \E o \in GetSimilarCompounds(c, 70, MaxSimilarities) :
            \E k \in 1..Len(o.results) :
                /\ o.rows[k].similar_compound = c
                /\ o.rows[k].target_compound = o.results[k].id

\* C5: no similarity row has target_compound equal to similar_compound, and a
\* request to create such a row is answered 400 and leaves the store unchanged.
C5_NoSelfSimilarity ==
    [][/\ \A r \in sims' : r.target_compound # r.similar_compound
       /\ lastOp'.op = "create_similarity" =>
             \A t \in CompoundIdInputs, score \in ScoreInputs :
                 CreateSimilarity(t, t, score) =>
                     /\ lastOp'.ret = 400
                     /\ sims' = sims
                     /\ UNCHANGED <<compounds, products, ingredients>>]_vars

\* a create request for (t, t) with otherwise valid fields has been refused
C5_Witness ==
    /\ lastOp.op = "create_similarity"
    /\ lastOp.ret = 400
    /\ lastOp.detail = "no_self_similarity"

\* C6: at most one similarity row exists for each ordered pair
\* (target_compound, similar_compound).
C6_OrderedPairUnique ==
    \A r1, r2 \in sims : SamePair(r1, r2) => r1 = r2

\* the store holds a row (A, B) and a row (B, A)
C6_Witness ==
    \E r1, r2 \in sims :
        /\ r1.target_compound = r2.similar_compound
        /\ r1.similar_compound = r2.target_compound

\* C7: both endpoints of every similarity row are existing compounds, and
\* after a compound is deleted no row has it as target or comparison side.
C7_CompoundDeleteCascades ==
    [][/\ \A r \in sims' :
             r.target_compound \in compounds' /\ r.similar_compound \in compounds'
       /\ lastOp'.op = "delete_compound" =>
             /\ lastOp'.a \notin compounds'
             /\ \A r \in sims' : r.target_compound # lastOp'.a
             /\ \A r \in sims' : r.similar_compound # lastOp'.a]_vars

\* a compound with a similarity row has been deleted, another row stays
C7_Witness ==
    /\ lastOp.op = "delete_compound"
    /\ lastOp.touched >= 1
    /\ sims # {}

\* C8: deleting a compound deletes no ingredient mapping: each mapping is
\* still there with the same product, raw name and status, its compound
\* reference null if it was the deleted compound and unchanged otherwise;
\* every mapping's compound reference is null or an existing compound.
C8_CompoundDeleteNullsMappings ==
    [][/\ \A g \in ingredients' : g.compound = NULL \/ g.compound \subseteq compounds'
       /\ lastOp'.op = "delete_compound" =>
             /\ Cardinality(ingredients') = Cardinality(ingredients)
             /\ \A g \in ingredients :
                   \E g2 \in ingredients' :
                       /\ g2.product = g.product
                       /\ g2.raw_ingredient_name = g.raw_ingredient_name
                       /\ g2.normalization_status = g.normalization_status
                       /\ g2.compound = IF g.compound = {lastOp'.a} THEN NULL ELSE g.compound
             /\ UNCHANGED products]_vars

\* the deleted compound was referenced by a mapping, which is still stored
C8_Witness ==
    /\ lastOp.op = "delete_compound"
    /\ lastOp.touched >= 1
    /\ \E g \in ingredients : g.compound = NULL /\ g.normalization_status = "SUCCESS"

\* C9: deleting a product deletes exactly its ingredient mappings, and every
\* mapping's owning product exists.
C9_ProductDeleteCascades ==
    [][/\ \A g \in ingredients' : g.product \in products'
       /\ lastOp'.op = "delete_product" =>
             /\ \A g \in ingredients :
                   IF g.product = lastOp'.a THEN g \notin ingredients'
                                            ELSE g \in ingredients'
             /\ ingredients' \subseteq ingredients]_vars

\* a product with a mapping has been deleted, a mapping of another one stays
C9_Witness ==
    /\ lastOp.op = "delete_product"
    /\ lastOp.touched >= 1
    /\ ingredients # {}

\* a row of the store before the step has no row of its pair after the step
Leaves(r) == ~ \E r2 \in sims' : SamePair(r, r2)

\* C10 as stated: a similarity row leaves the store only through the cascade
\* of deleting one of its endpoint compounds.
C10_Original_OnlyCascadeDeletes ==
    [][\A r \in sims :
          Leaves(r) => (lastOp'.op = "delete_compound" /\ Involves(r, lastOp'.a))]_vars

\* C10 amended: create, update and invalidate requests delete no similarity
\* row; a row leaves the store only through a DELETE request on that row,
\* which removes that row alone, or through the cascade of deleting one of
\* its endpoint compounds.
C10_DeleteOnlyByDestroyOrCascade ==
    [][\A r \in sims :
          Leaves(r) =>
              \/ lastOp'.op = "delete_compound" /\ Involves(r, lastOp'.a)
              \/ lastOp'.op = "destroy_similarity" /\ sims' = sims \ {r}]_vars

\* a DELETE request on a row has removed it, leaving the other rows
C10_Witness ==
    /\ lastOp.op = "destroy_similarity"
    /\ lastOp.ret = 204
    /\ sims # {}
\* ---- search_compounds ----
\* list(queryset): the rows of S in whatever order the database yields
\* (Compound declares no ordering)
Listings(S) ==
    {q \in [1..Cardinality(S) -> S] :
        \A i, j \in 1..Cardinality(S) : i # j => q[i] # q[j]}

\* a query that is never taken for empty
EmptyQueryNever(query) == FALSE

\* if not query
EmptyQuery(query) == Len(query) = 0

\* queryset.filter(cid=cid_value)
CidMatch(cid_value) == {c \in compounds : compoundRows[c].cid = {cid_value}}

\* queryset.filter(Q(smiles__exact=query) | Q(smiles__icontains=query))
SmilesMatch(query) ==
    {c \in compounds :
        \E t \in compoundRows[c].smiles : t = query \/ IContains(t, query)}

\* queryset.filter(standard_name__iexact=query)
ExactMatch(query) ==
    {c \in compounds : IExact(compoundRows[c].standard_name, query)}

\* the partial matches without the exclude of the exact ones
PartialMatchWithExact(query) ==
    {c \in compounds :
        \/ IContains(compoundRows[c].standard_name, query)
        \/ \E t \in compoundRows[c].iupac_name : IContains(t, query)}

\* queryset.filter(Q(standard_name__icontains=query) |
\*                 Q(iupac_name__icontains=query))
\*         .exclude(standard_name__iexact=query)
PartialMatch(query) ==
    {c \in compounds :
        /\ \/ IContains(compoundRows[c].standard_name, query)
           \/ \E t \in compoundRows[c].iupac_name : IContains(t, query)
        /\ ~ IExact(compoundRows[c].standard_name, query)}

Raised(error) == [raised |-> TRUE, error |-> error, results |-> <<>>]
Returned(results) == [raised |-> FALSE, error |-> "", results |-> results]

\* the possible outcomes of search_compounds(q, search_type): a ValueError,
\* or the list of the primary keys of the compounds returned
SearchCompounds(q, search_type) ==
    LET query == Strip(q)
    IN IF EmptyQuery(query) THEN {Raised("empty_query")}
       ELSE IF Lower(search_type) = <<"c", "i", "d">>
       THEN IF ParsesAsInt(query)
            THEN {Returned(l) : l \in Listings(CidMatch(IntOf(query)))}
            ELSE {Raised("cid_not_integer")}
       ELSE IF Lower(search_type) = <<"s", "m", "i", "l", "e", "s">>
       THEN {Returned(l) : l \in Listings(SmilesMatch(query))}
       ELSE {Returned(e \o p) :
                e \in Listings(ExactMatch(query)), p \in Listings(PartialMatch(query))}

\* GET /compounds/search/?q=..&type=.. : the view trims q and lower-cases
\* type, calls search_compounds and answers 400 when it raises ValueError
SearchRequest(q, search_type) ==
    /\ Ready
    /\ \E o \in SearchCompounds(Strip(q), Lower(search_type)) :
          lastOp' = IF o.raised THEN Op("search", 0, 400, o.error)
                    ELSE [Op("search", 0, 200, "") EXCEPT !.touched = Len(o.results)]
    /\ UNCHANGED <<compounds, compoundRows, nextCompoundId, sims, products, productRows,
                   nextProductId, ingredients, aside>>

\* the rows clients create: names that differ in case only, a name that
\* contains another, a name that shares nothing; no cid, a cid of 0, a cid of 12
SearchNames == {<<"A", "s">>, <<"a", "s">>, <<"A", "s", "x">>, <<"o", "x">>}
SearchCids == {NULL, {0}, {12}}
SearchIupacNames == {NULL, {<<"x", "a", "s">>}}
SearchRows ==
    {Compound(name, cid, NULL, NULL, iupac, NULL) :
        name \in SearchNames, cid \in SearchCids, iupac \in SearchIupacNames}
\* the values of q and type: q absent or empty, blank, padded, in another
\* case, a number
QueryInputs ==
    {<<>>, <<" ">>, <<"a", "s">>, <<" ", "A", "S", " ">>, <<"1", "2">>, <<"x">>}
TypeInputs ==
    {<<"n", "a", "m", "e">>, <<"c", "i", "d">>, <<"C", "I", "D">>,
     <<"s", "m", "i", "l", "e", "s">>}

NextSearch ==
    \/ \E row \in SearchRows : CreateCompound(row)
    \/ \E q \in QueryInputs, search_type \in TypeInputs : SearchRequest(q, search_type)
    \/ Deliver

\* The compounds table, creation of compounds and the search endpoint.
SpecSearch == Init /\ [][NextSearch]_vars

\* ---- concurrent writers ----
\* Each request is handled by its own worker: the serializer validates it
\* against the tables as they are then (one or more SELECTs), and the save
\* writes later (one INSERT or UPDATE, autocommitted).  Other requests run in
\* between.  pending holds the requests that passed validation and have not
\* written yet, one at most per client.
Clients == {"a", "b"}

Free(k) == ~ \E req \in pending : req.by = k

\* a table without its unique indexes
NoCompoundConstraints(row, others) == TRUE

\* unique=True of Compound.standard_name and of Compound.cid, as the database
\* enforces them when a row is written; null cids never collide
CompoundConstraints(row, others) ==
    /\ ~ NameExists(row.standard_name, others)
    /\ \A v \in row.cid : ~ CidExists(v, others)

\* unique=True of Product.permit_number
ProductConstraints(row) == ~ PermitExists(row.permit_number)

\* POST /compounds/ : is_valid() of CompoundCreateSerializer
ValidateCreateCompound(k, row) ==
    /\ Free(k)
    /\ IF CreateCompoundError(row) = ""
       THEN /\ pending' = pending \cup {[by |-> k, kind |-> "create_compound", row |-> row]}
            /\ UNCHANGED lastOp
       ELSE /\ lastOp' = Op("create_compound", 0, 400, CreateCompoundError(row))
            /\ UNCHANGED pending
    /\ UNCHANGED <<compounds, compoundRows, nextCompoundId, sims, products, productRows,
                   nextProductId, ingredients, scope>>

\* POST /compounds/ : save() of the validated request, an INSERT; a row the
\* unique indexes refuse raises IntegrityError, answered 500
WriteCreateCompound(req) ==
    /\ req \in pending
    /\ req.kind = "create_compound"
    /\ pending' = pending \ {req}
    /\ IF CompoundConstraints(req.row, compounds)
       THEN /\ nextCompoundId <= MaxCompounds
            /\ compounds' = compounds \cup {nextCompoundId}
            /\ compoundRows' =
                   [c \in compounds \cup {nextCompoundId} |->
                       IF c = nextCompoundId THEN req.row ELSE compoundRows[c]]
            /\ nextCompoundId' = nextCompoundId + 1
            /\ lastOp' = Op("create_compound", nextCompoundId, 201, "")
       ELSE /\ UNCHANGED <<compounds, compoundRows, nextCompoundId>>
            /\ lastOp' = Op("create_compound", 0, 500, "IntegrityError")
    /\ UNCHANGED <<sims, products, productRows, nextProductId, ingredients, scope>>

\* PUT/PATCH /compounds/{id}/ : get_object() reads the row, is_valid() of
\* CompoundUpdateSerializer validates the body; the request keeps the row it
\* read with the fields of the body written over it
ValidateUpdateCompound(k, c, body) ==
    /\ Free(k)
    /\ c \in compounds
    /\ IF UpdateCompoundError(c, body) = ""
       THEN /\ pending' = pending \cup
                   {[by |-> k, kind |-> "update_compound", pk |-> c,
                     row |-> Merge(compoundRows[c], body)]}
            /\ UNCHANGED lastOp
       ELSE /\ lastOp' = Op("update_compound", c, 400, UpdateCompoundError(c, body))
            /\ UNCHANGED pending
    /\ UNCHANGED <<compounds, compoundRows, nextCompoundId, sims, products, productRows,
                   nextProductId, ingredients, scope>>

\* PUT/PATCH /compounds/{id}/ : save() of the validated request, an UPDATE
\* of every column of the row
WriteUpdateCompound(req) ==
    /\ req \in pending
    /\ req.kind = "update_compound"
    /\ pending' = pending \ {req}
    /\ IF CompoundConstraints(req.row, compounds \ {req.pk})
       THEN /\ compoundRows' = [compoundRows EXCEPT ![req.pk] = req.row]
            /\ lastOp' = Op("update_compound", req.pk, 200, "")
       ELSE /\ UNCHANGED compoundRows
            /\ lastOp' = Op("update_compound", req.pk, 500, "IntegrityError")
    /\ UNCHANGED <<compounds, nextCompoundId, sims, products, productRows,
                   nextProductId, ingredients, scope>>

\* POST /products/ : is_valid() of ProductCreateSerializer
ValidateCreateProduct(k, row) ==
    /\ Free(k)
    /\ IF ~ PermitExists(row.permit_number)
       THEN /\ pending' = pending \cup {[by |-> k, kind |-> "create_product", row |-> row]}
            /\ UNCHANGED lastOp
       ELSE /\ lastOp' = Op("create_product", 0, 400, "permit_number_exists")
            /\ UNCHANGED pending
    /\ UNCHANGED <<compounds, compoundRows, nextCompoundId, sims, products, productRows,
                   nextProductId, ingredients, scope>>

\* POST /products/ : save() of the validated request, an INSERT
WriteCreateProduct(req) ==
    /\ req \in pending
    /\ req.kind = "create_product"
    /\ pending' = pending \ {req}
    /\ IF ProductConstraints(req.row)
       THEN /\ nextProductId <= MaxProducts
            /\ products' = products \cup {nextProductId}
            /\ productRows' =
                   [p \in products \cup {nextProductId} |->
                       IF p = nextProductId THEN req.row ELSE productRows[p]]
            /\ nextProductId' = nextProductId + 1
            /\ lastOp' = Op("create_product", nextProductId, 201, "")
       ELSE /\ UNCHANGED <<products, productRows, nextProductId>>
            /\ lastOp' = Op("create_product", 0, 500, "IntegrityError")
    /\ UNCHANGED <<compounds, compoundRows, nextCompoundId, sims, ingredients, scope>>

\* what the concurrent clients send: two names, no cid or the cid 12, two
\* permit numbers.  ProductUpdateSerializer has no permit_number field, so
\* an update of a product writes no unique column.
ConcurrentNames == {<<"A", "s">>, <<"o", "x">>}
ConcurrentCids == {NULL, {12}}
ConcurrentRows ==
    {Compound(name, cid, NULL, NULL, NULL, NULL) :
        name \in ConcurrentNames, cid \in ConcurrentCids}
ConcurrentBodies == [standard_name : ConcurrentNames] \cup [cid : ConcurrentCids]
ConcurrentProducts == {Product(<<"7">>), Product(<<"7", "7">>)}

NextConcurrent ==
    \/ \E k \in Clients, row \in ConcurrentRows : ValidateCreateCompound(k, row)
    \/ \E req \in pending : WriteCreateCompound(req)
    \/ \E k \in Clients, c \in CompoundIdInputs, body \in ConcurrentBodies :
          ValidateUpdateCompound(k, c, body)
    \/ \E req \in pending : WriteUpdateCompound(req)
    \/ \E k \in Clients, row \in ConcurrentProducts : ValidateCreateProduct(k, row)
    \/ \E req \in pending : WriteCreateProduct(req)

\* Create and update requests of concurrent clients, each a validation
\* followed later by its write.
SpecConcurrent == Init /\ [][NextConcurrent]_vars

\* ---- structure data of a compound ----
\* the truth value Python gives a nullable text or blob: false for None and
\* for a value of length 0
Truthy(v) == \E t \in v : Len(t) > 0

\* Compound.has_structure_data: bool(self.smiles and self.fingerprint_morgan)
HasStructureData(row) == Truthy(row.smiles) /\ Truthy(row.fingerprint_morgan)

\* The fingerprint column is written by the fingerprinting job that runs
\* outside the REST interface; the column takes null or any blob, the blob
\* of length 0 included.  A blob is a sequence of bytes.
StoreFingerprint(c, blob) ==
    /\ Ready
    /\ c \in compounds
    /\ compoundRows' = [compoundRows EXCEPT ![c].fingerprint_morgan = blob]
    /\ UNCHANGED <<compounds, nextCompoundId, sims, products, productRows,
                   nextProductId, ingredients, aside, lastOp>>

\* the smiles a client sends and the blobs the job stores
FingerprintRows(k) ==
    {Compound(PlainName(k), NULL, smiles, NULL, NULL, NULL) :
        smiles \in {NULL, {<<>>}, {<<"C">>}}}
FingerprintInputs == {NULL, {<<>>}, {<<1>>}}

NextFingerprint ==
    \/ \E row \in FingerprintRows(nextCompoundId) : CreateCompound(row)
    \/ \E c \in CompoundIdInputs, blob \in FingerprintInputs : StoreFingerprint(c, blob)
    \/ Deliver

\* Compounds with their smiles and their cached fingerprint.
SpecFingerprint == Init /\ [][NextFingerprint]_vars

\* ---- statistics of the compounds table ----
\* molecular_weight is a DecimalField of 4 decimal places: a weight is
\* modelled by its number of ten-thousandths
WeightScale == 10000

\* a first bucket that takes in its upper edge (molecular_weight__lte=200)
Under200Closed ==
    {c \in compounds : \E w \in compoundRows[c].molecular_weight : w <= 200 * WeightScale}

\* the five filters of weight_distribution; a comparison with a null weight
\* selects no row
Under200 ==
    {c \in compounds : \E w \in compoundRows[c].molecular_weight : w < 200 * WeightScale}
From200To500 ==
    {c \in compounds : \E w \in compoundRows[c].molecular_weight :
        w >= 200 * WeightScale /\ w < 500 * WeightScale}
From500To1000 ==
    {c \in compounds : \E w \in compoundRows[c].molecular_weight :
        w >= 500 * WeightScale /\ w < 1000 * WeightScale}
Over1000 ==
    {c \in compounds : \E w \in compoundRows[c].molecular_weight : w >= 1000 * WeightScale}
UnknownWeight == {c \in compounds : compoundRows[c].molecular_weight = NULL}

\* filter(smiles__isnull=False, fingerprint_morgan__isnull=False).exclude(smiles="")
WithStructure ==
    {c \in compounds :
        /\ compoundRows[c].smiles # NULL
        /\ compoundRows[c].fingerprint_morgan # NULL
        /\ compoundRows[c].smiles # {<<>>}}

\* CompoundService.get_statistics
CompoundStatistics ==
    LET total_count == Cardinality(compounds)
        valid_count == Cardinality({c \in compounds : compoundRows[c].is_valid})
    IN [total_compounds |-> total_count,
        valid_compounds |-> valid_count,
        invalid_compounds |-> total_count - valid_count,
        with_pubchem_cid |-> Cardinality({c \in compounds : compoundRows[c].cid # NULL}),
        with_structure_data |-> Cardinality(WithStructure),
        weight_distribution |->
            [b \in {"under_200", "200_to_500", "500_to_1000", "over_1000", "unknown"} |->
                CASE b = "under_200" -> Cardinality(Under200)
                  [] b = "200_to_500" -> Cardinality(From200To500)
                  [] b = "500_to_1000" -> Cardinality(From500To1000)
                  [] b = "over_1000" -> Cardinality(Over1000)
                  [] b = "unknown" -> Cardinality(UnknownWeight)]]

\* GET /compounds/statistics/
CompoundStatisticsRequest ==
    /\ Ready
    /\ lastOp' = [Op("compound_statistics", 0, 200, "") EXCEPT
                      !.touched = CompoundStatistics.total_compounds]
    /\ UNCHANGED <<compounds, compoundRows, nextCompoundId, sims, products, productRows,
                   nextProductId, ingredients, aside>>

\* the weights clients send: none, and the weights at and just under each edge
WeightInputs ==
    {NULL} \cup
    {{edge * WeightScale - below} : edge \in {200, 500, 1000}, below \in {0, 1}}
WeightRows(k) ==
    {Compound(PlainName(k), NULL, NULL, NULL, NULL, w) : w \in WeightInputs}

NextWeights ==
    \/ \E row \in WeightRows(nextCompoundId) : CreateCompound(row)
    \/ CompoundStatisticsRequest
    \/ Deliver

\* Compounds with their molecular weight and the statistics endpoint.
SpecWeights == Init /\ [][NextWeights]_vars

\* ---- statistics of the similarity table ----
\* a top bucket that leaves out its lower edge (similarity_score__gt=0.9)
ScoreOver90Open == {r \in sims : r.similarity_score > 90}

\* the four filters of score_distribution
ScoreOver90 == {r \in sims : r.similarity_score >= 90}
Score80To90 == {r \in sims : r.similarity_score >= 80 /\ r.similarity_score < 90}
Score70To80 == {r \in sims : r.similarity_score >= 70 /\ r.similarity_score < 80}
ScoreBelow70 == {r \in sims : r.similarity_score < 70}

RECURSIVE SumOfScores(_)
SumOfScores(S) ==
    IF S = {} THEN 0
    ELSE LET r == CHOOSE x \in S : TRUE
         IN r.similarity_score + SumOfScores(S \ {r})

\* round(avg, 4) in ten-thousandths, avg being a number of hundredths; 0.0
\* for the empty table
AverageScore ==
    IF sims = {} THEN 0
    ELSE (2 * 100 * SumOfScores(sims) + Cardinality(sims)) \div (2 * Cardinality(sims))

\* values("fingerprint_method").annotate(count=Count("id")): the number of
\* rows of each method
MethodDistribution ==
    [m \in {r.fingerprint_method : r \in sims} |->
        Cardinality({r \in sims : r.fingerprint_method = m})]

\* SimilarityAnalysisService.get_statistics
SimilarityStatistics ==
    [total_analyses |-> Cardinality(sims),
     method_distribution |-> MethodDistribution,
     current_analyses |-> Cardinality({r \in sims : r.is_current}),
     average_score |-> AverageScore,
     score_distribution |->
         [b \in {"0.9_to_1.0", "0.8_to_0.9", "0.7_to_0.8", "below_0.7"} |->
             CASE b = "0.9_to_1.0" -> Cardinality(ScoreOver90)
               [] b = "0.8_to_0.9" -> Cardinality(Score80To90)
               [] b = "0.7_to_0.8" -> Cardinality(Score70To80)
               [] b = "below_0.7" -> Cardinality(ScoreBelow70)]]

\* GET /similarities/statistics/
SimilarityStatisticsRequest ==
    /\ Ready
    /\ lastOp' = [Op("similarity_statistics", 0, 200, "") EXCEPT
                      !.touched = SimilarityStatistics.total_analyses]
    /\ UNCHANGED <<compounds, compoundRows, nextCompoundId, sims, products, productRows,
                   nextProductId, ingredients, aside>>

\* the scores the batch job stores: at and just under each edge
StatisticsScores == {69, 70, 79, 80, 89, 90}

NextSimilarityStatistics ==
    \/ \E row \in {PlainCompound(nextCompoundId)} : CreateCompound(row)
    \/ \E t \in CompoundIdInputs, s \in CompoundIdInputs, score \in StatisticsScores :
          t < s /\ CreateSimilarity(t, s, score)
    \/ \E c \in CompoundIdInputs : InvalidateCompoundSimilarities(c)
    \/ SimilarityStatisticsRequest
    \/ Deliver

\* Similarity rows of many scores, current and stale, and the statistics
\* endpoint.
SpecSimilarityStatistics == Init /\ [][NextSimilarityStatistics]_vars

\* ---- filtering services ----
\* A filtering service takes a queryset and a parameter object and returns
\* the queryset narrowed by one filter() per supplied parameter.  scope is
\* the queryset it is handed: the name of the table and a set of its rows,
\* each a record of the row's id and of the columns the filters read.  An
\* optional parameter holds NULL (None) or a one-element set.

\* the parameter object with every field but f omitted
Only(params, f) == [g \in DOMAIN params |-> IF g = f THEN params[g] ELSE NULL]

\* the parameter object with every field omitted
Omitted(params) == [g \in DOMAIN params |-> NULL]

\* if params.x: a text parameter that is None or empty is not applied
Supplied(v) == \E t \in v : Len(t) > 0

\* filters joined by OR: a row passes when any supplied parameter accepts it
FilterCompoundsAnyOf(rows, params) ==
    {r \in rows :
        \/ r.is_valid \in params.is_valid
        \/ \E m \in params.min_weight : \E w \in r.molecular_weight : w >= m
        \/ \E m \in params.max_weight : \E w \in r.molecular_weight : w <= m}

\* CompoundService.filter_compounds
FilterCompounds(rows, params) ==
    LET q1 == IF params.is_valid # NULL
              THEN {r \in rows : r.is_valid \in params.is_valid}
              ELSE rows
        q2 == IF params.has_structure # NULL
              THEN IF TRUE \in params.has_structure
                   THEN {r \in q1 : /\ r.smiles # NULL
                                    /\ r.fingerprint_morgan # NULL
                                    /\ r.smiles # {<<>>}}
                   ELSE {r \in q1 : \/ r.smiles = NULL
                                    \/ r.smiles = {<<>>}
                                    \/ r.fingerprint_morgan = NULL}
              ELSE q1
        q3 == IF params.has_cid # NULL
              THEN IF TRUE \in params.has_cid
                   THEN {r \in q2 : r.cid # NULL}
                   ELSE {r \in q2 : r.cid = NULL}
              ELSE q2
        q4 == IF params.min_weight # NULL
              THEN {r \in q3 : \E m \in params.min_weight :
                                 \E w \in r.molecular_weight : w >= m}
              ELSE q3
        q5 == IF params.max_weight # NULL
              THEN {r \in q4 : \E m \in params.max_weight :
                                 \E w \in r.molecular_weight : w <= m}
              ELSE q4
    IN q5

\* SimilarityAnalysisService.filter_analyses
FilterAnalyses(rows, params) ==
    LET q1 == IF params.min_score # NULL
              THEN {r \in rows : \E m \in params.min_score : r.similarity_score >= m}
              ELSE rows
        q2 == IF params.max_score # NULL
              THEN {r \in q1 : \E m \in params.max_score : r.similarity_score <= m}
              ELSE q1
        q3 == IF Supplied(params.fingerprint_method)
              THEN {r \in q2 : r.fingerprint_method \in params.fingerprint_method}
              ELSE q2
        q4 == IF params.is_current # NULL
              THEN {r \in q3 : r.is_current \in params.is_current}
              ELSE q3
        q5 == IF params.compound_id # NULL
              THEN {r \in q4 : \E c \in params.compound_id : Involves(r, c)}
              ELSE q4
    IN q5

\* ProductService.filter_products
FilterProducts(rows, params) ==
    LET q1 == IF params.is_combination # NULL
              THEN {r \in rows : r.is_combination \in params.is_combination}
              ELSE rows
        q2 == IF Supplied(params.manufacturer)
              THEN {r \in q1 : \E m \in params.manufacturer :
                                 \E t \in r.manufacturer : IContains(t, m)}
              ELSE q1
    IN q2

\* ProductIngredientService.filter_ingredients
FilterIngredients(rows, params) ==
    LET q1 == IF Supplied(params.normalization_status)
              THEN {r \in rows : \E t \in params.normalization_status :
                                   r.normalization_status = Upper(t)}
              ELSE rows
        q2 == IF params.is_main_active # NULL
              THEN {r \in q1 : r.is_main_active \in params.is_main_active}
              ELSE q1
        q3 == IF \E p \in params.product_id : p # 0
              THEN {r \in q2 : r.product_id \in params.product_id}
              ELSE q2
    IN q3

\* the filtering service of a table
Filter(table, rows, params) ==
    CASE table = "compounds" -> FilterCompounds(rows, params)
      [] table = "analyses" -> FilterAnalyses(rows, params)
      [] table = "products" -> FilterProducts(rows, params)
      [] table = "ingredients" -> FilterIngredients(rows, params)

\* ---- query parameters ----
\* A query parameter is absent (NULL) or present with a text ({text}).
TrueTexts == {<<"t", "r", "u", "e">>, <<"1">>, <<"y", "e", "s">>}

\* a parse that takes an absent parameter for false
ParseBoolAbsentIsFalse(value) == {\E t \in value : Lower(t) \in TrueTexts}

\* _parse_bool of CompoundViewSet and of SimilarityAnalysisViewSet
ParseBool(value) ==
    IF value = NULL THEN NULL ELSE {(Lower(t) \in TrueTexts) : t \in value}

\* float(text) succeeds: an optional sign, digits, and optionally a point
\* followed by digits
ParsesAsFloat(t) ==
    \/ ParsesAsInt(t)
    \/ \E k \in 2..(Len(t) - 1) :
          /\ t[k] = "."
          /\ ParsesAsInt(SubSeq(t, 1, k - 1))
          /\ AllDigits(SubSeq(t, k + 1, Len(t)))

RECURSIVE PowerOfTen(_)
PowerOfTen(n) == IF n = 0 THEN 1 ELSE 10 * PowerOfTen(n - 1)

\* float(text) in units of 1/scale, for a text whose value is a whole number
\* of such units
FloatOf(t, scale) ==
    IF ParsesAsInt(t) THEN IntOf(t) * scale
    ELSE LET k == CHOOSE i \in 2..(Len(t) - 1) : t[i] = "."
             whole == SubSeq(t, 1, k - 1)
             fraction == SubSeq(t, k + 1, Len(t))
             part == (Decimal(fraction) * scale) \div PowerOfTen(Len(fraction))
         IN IF whole[1] = "-" THEN IntOf(whole) * scale - part
            ELSE IntOf(whole) * scale + part

\* float(value) if value else None
OptionalFloat(value, scale) ==
    IF Supplied(value) THEN {FloatOf(t, scale) : t \in value} ELSE NULL

\* CompoundViewSet._build_filter_params
BuildCompoundFilterParams(query) ==
    [is_valid |-> ParseBool(query.is_valid),
     has_structure |-> ParseBool(query.has_structure),
     has_cid |-> ParseBool(query.has_cid),
     min_weight |-> OptionalFloat(query.min_weight, WeightScale),
     max_weight |-> OptionalFloat(query.max_weight, WeightScale)]

\* CompoundViewSet.get_queryset: float() of a weight that is no number
\* raises ValueError, which no handler catches
ListCompounds(rows, query) ==
    IF \E t \in query.min_weight \cup query.max_weight : Len(t) > 0 /\ ~ ParsesAsFloat(t)
    THEN [raised |-> TRUE, rows |-> {}]
    ELSE [raised |-> FALSE, rows |-> FilterCompounds(rows, BuildCompoundFilterParams(query))]

\* scores are in hundredths
ScoreScale == 100

\* int(value) if value else None
OptionalInt(value) ==
    IF Supplied(value) THEN {IntOf(Strip(t)) : t \in value} ELSE NULL

\* SimilarityAnalysisViewSet._build_filter_params
BuildAnalysisFilterParams(query) ==
    [min_score |-> OptionalFloat(query.min_score, ScoreScale),
     max_score |-> OptionalFloat(query.max_score, ScoreScale),
     fingerprint_method |-> query.fingerprint_method,
     is_current |-> ParseBool(query.is_current),
     compound_id |-> OptionalInt(query.compound_id)]

\* SimilarityAnalysisViewSet.get_queryset: float() of a score or int() of a
\* compound id that is no number raises ValueError, which no handler catches
ListAnalyses(rows, query) ==
    IF \/ \E t \in query.min_score \cup query.max_score : Len(t) > 0 /\ ~ ParsesAsFloat(t)
       \/ \E t \in query.compound_id : Len(t) > 0 /\ ~ ParsesAsInt(Strip(t))
    THEN [raised |-> TRUE, rows |-> {}]
    ELSE [raised |-> FALSE, rows |-> FilterAnalyses(rows, BuildAnalysisFilterParams(query))]

\* ProductViewSet.get_queryset: is_combination is parsed in line
ListProducts(rows, query) ==
    LET q1 == IF query.is_combination # NULL
              THEN {r \in rows :
                      r.is_combination = (\E t \in query.is_combination : Lower(t) \in TrueTexts)}
              ELSE rows
        q2 == IF Supplied(query.manufacturer)
              THEN {r \in q1 : \E m \in query.manufacturer :
                                 \E t \in r.manufacturer : IContains(t, m)}
              ELSE q1
    IN q2

\* ---- the querysets and parameters drawn ----
ScopeIds == {1, 2}
CompoundScopeRows ==
    [id : ScopeIds, is_valid : BOOLEAN, smiles : {NULL, {<<>>}, {<<"C">>}},
     fingerprint_morgan : {NULL, {<<1>>}}, cid : {NULL, {12}},
     molecular_weight : {NULL, {150 * WeightScale}, {300 * WeightScale}}]
AnalysisScopeRows ==
    [id : ScopeIds, target_compound : {1, 2}, similar_compound : {3},
     similarity_score : Scores, fingerprint_method : {<<"M">>, <<"E">>},
     is_current : BOOLEAN]
ProductScopeRows ==
    [id : ScopeIds, is_combination : BOOLEAN,
     manufacturer : {NULL, {<<"A", "c">>}, {<<"B", "o">>}}]
IngredientScopeRows ==
    [id : ScopeIds, is_main_active : BOOLEAN, product_id : {1, 2},
     normalization_status :
         {<<"F", "A", "I", "L", "E", "D">>, <<"S", "U", "C", "C", "E", "S", "S">>}]

ScopeRows(table) ==
    CASE table = "compounds" -> CompoundScopeRows
      [] table = "analyses" -> AnalysisScopeRows
      [] table = "products" -> ProductScopeRows
      [] table = "ingredients" -> IngredientScopeRows

Tables == {"compounds", "analyses", "products", "ingredients"}

OptionalBool == {NULL, {TRUE}, {FALSE}}

ParamInputs(table) ==
    CASE table = "compounds" ->
             [is_valid : OptionalBool, has_structure : OptionalBool, has_cid : OptionalBool,
              min_weight : {NULL, {200 * WeightScale}},
              max_weight : {NULL, {200 * WeightScale}}]
      [] table = "analyses" ->
             [min_score : {NULL, {80}}, max_score : {NULL, {80}},
              fingerprint_method : {NULL, {<<>>}, {<<"M">>}},
              is_current : OptionalBool, compound_id : {NULL, {1}}]
      [] table = "products" ->
             [is_combination : OptionalBool,
              manufacturer : {NULL, {<<>>}, {<<"a", "c">>}}]
      [] table = "ingredients" ->
             [normalization_status : {NULL, {<<>>}, {<<"f", "a", "i", "l", "e", "d">>}},
              is_main_active : OptionalBool, product_id : {NULL, {0}, {1}}]
      [] OTHER -> {}

\* the texts of a boolean query parameter
BoolTexts ==
    {<<"t", "r", "u", "e">>, <<"T", "R", "U", "E">>, <<"T", "r", "u", "e">>, <<"1">>,
     <<"y", "e", "s">>, <<"Y", "e", "s">>, <<"f", "a", "l", "s", "e">>, <<"0">>,
     <<"n", "o">>, <<"o", "n">>, <<>>}
\* the values of a boolean query parameter the list requests are sent with
BoolParams == {{<<"T", "r", "u", "e">>}, {<<"0">>}, {<<>>}}
NoCompoundQuery ==
    [is_valid |-> NULL, has_structure |-> NULL, has_cid |-> NULL,
     min_weight |-> NULL, max_weight |-> NULL]
CompoundQueries ==
    {[NoCompoundQuery EXCEPT ![name] = value] :
        name \in {"is_valid", "has_structure", "has_cid"}, value \in BoolParams}
    \cup {[NoCompoundQuery EXCEPT !.min_weight = value] :
             value \in {{<<>>}, {<<"2", "0", "0">>}, {<<"1", "5", "0", ".", "5">>}, {<<"x">>}}}
NoProductQuery == [is_combination |-> NULL, manufacturer |-> NULL]
ProductQueries ==
    {[NoProductQuery EXCEPT !.is_combination = value] : value \in BoolParams}
    \cup {[NoProductQuery EXCEPT !.manufacturer = value] : value \in {{<<>>}, {<<"a", "c">>}}}

NoAnalysisQuery ==
    [min_score |-> NULL, max_score |-> NULL, fingerprint_method |-> NULL,
     is_current |-> NULL, compound_id |-> NULL]
AnalysisQueries ==
    {[NoAnalysisQuery EXCEPT ![name] = value] :
        name \in {"min_score", "max_score"},
        value \in {{<<>>}, {<<"0", ".", "8">>}, {<<"x">>}}}
    \cup {[NoAnalysisQuery EXCEPT !.compound_id = value] :
             value \in {{<<>>}, {<<"1">>}, {<<"x">>}}}
    \cup {[NoAnalysisQuery EXCEPT !.is_current = value] : value \in BoolParams}

\* a row joins the queryset (the table gains a row)
AddToScope(table, row) ==
    /\ Ready
    /\ scope.table \in {"", table}
    /\ ~ \E r \in scope.rows : r.id = row.id
    /\ scope' = [table |-> table, rows |-> scope.rows \cup {row}]
    /\ UNCHANGED <<compounds, compoundRows, nextCompoundId, sims, products, productRows,
                   nextProductId, ingredients, pending, lastOp>>

\* a call of the filtering service of the table with the queryset
FilterRequest(table, params) ==
    /\ Ready
    /\ scope.table = table
    /\ lastOp' = [Op("filter", 0, 200, table) EXCEPT
                      !.touched = Cardinality(Filter(table, scope.rows, params))]
    /\ UNCHANGED <<compounds, compoundRows, nextCompoundId, sims, products, productRows,
                   nextProductId, ingredients, aside>>

\* GET /compounds/?is_valid=..&has_structure=..&has_cid=..&min_weight=..
ListCompoundsRequest(query) ==
    /\ Ready
    /\ scope.table = "compounds"
    /\ lastOp' = IF ListCompounds(scope.rows, query).raised
                 THEN Op("list_compounds", 0, 500, "ValueError")
                 ELSE [Op("list_compounds", 0, 200, "") EXCEPT
                          !.touched = Cardinality(ListCompounds(scope.rows, query).rows)]
    /\ UNCHANGED <<compounds, compoundRows, nextCompoundId, sims, products, productRows,
                   nextProductId, ingredients, aside>>

\* GET /similarities/?min_score=..&max_score=..&is_current=..&compound_id=..
ListAnalysesRequest(query) ==
    /\ Ready
    /\ scope.table = "analyses"
    /\ lastOp' = IF ListAnalyses(scope.rows, query).raised
                 THEN Op("list_analyses", 0, 500, "ValueError")
                 ELSE [Op("list_analyses", 0, 200, "") EXCEPT
                          !.touched = Cardinality(ListAnalyses(scope.rows, query).rows)]
    /\ UNCHANGED <<compounds, compoundRows, nextCompoundId, sims, products, productRows,
                   nextProductId, ingredients, aside>>

\* GET /products/?is_combination=..&manufacturer=..
ListProductsRequest(query) ==
    /\ Ready
    /\ scope.table = "products"
    /\ lastOp' = [Op("list_products", 0, 200, "") EXCEPT
                      !.touched = Cardinality(ListProducts(scope.rows, query))]
    /\ UNCHANGED <<compounds, compoundRows, nextCompoundId, sims, products, productRows,
                   nextProductId, ingredients, aside>>

NextFilters ==
    \/ \E table \in Tables : \E row \in ScopeRows(table) : AddToScope(table, row)
    \/ \E table \in Tables : \E params \in ParamInputs(table) : FilterRequest(table, params)
    \/ \E query \in CompoundQueries : ListCompoundsRequest(query)
    \/ \E query \in AnalysisQueries : ListAnalysesRequest(query)
    \/ \E query \in ProductQueries : ListProductsRequest(query)
    \/ Deliver

\* The filtering services and the list endpoints over a queryset.
SpecFilters == Init /\ [][NextFilters]_vars

\* ---- the similar-compound endpoints ----
\* GET /compounds/{id}/similar/ and GET /similarities/by_compound/ parse
\* min_score and limit alike and hand them to get_similar_compounds.
DefaultMinScore == 70
DefaultLimit == 10

\* try: limit = int(request.query_params.get("limit", 10))
\* except ValueError: limit = 10
ParseLimit(value) ==
    IF \E t \in value : ParsesAsInt(Strip(t))
    THEN IntOf(Strip(CHOOSE t \in value : TRUE))
    ELSE DefaultLimit

\* try: min_score = float(request.query_params.get("min_score", 0.7))
\* except ValueError: min_score = 0.7
ParseMinScore(value) ==
    IF \E t \in value : ParsesAsFloat(Strip(t))
    THEN FloatOf(Strip(CHOOSE t \in value : TRUE), ScoreScale)
    ELSE DefaultMinScore

\* the outcomes of the endpoint for compound c: 404 when c is not stored,
\* 500 when get_similar_compounds raises (no handler catches it), else 200
\* with the count of the results
SimilarEndpoint(c, min_score, limit) ==
    IF c \notin compounds
    THEN {[ret |-> 404, count |-> 0]}
    ELSE {IF o.raised THEN [ret |-> 500, count |-> 0]
                      ELSE [ret |-> 200, count |-> Len(o.results)] :
            o \in GetSimilarCompounds(c, ParseMinScore(min_score), ParseLimit(limit))}

SimilarRequest(c, min_score, limit) ==
    /\ Ready
    /\ \E o \in SimilarEndpoint(c, min_score, limit) :
          lastOp' = [Op("similar", c, o.ret, "") EXCEPT !.touched = o.count]
    /\ UNCHANGED <<compounds, compoundRows, nextCompoundId, sims, products, productRows,
                   nextProductId, ingredients, aside>>

\* the texts of min_score and of limit the endpoints are requested with
MinScoreTexts == {NULL, {<<>>}, {<<"x">>}, {<<"0", ".", "8">>}, {<<"1">>}}
LimitTexts == {NULL, {<<>>}, {<<"x">>}, {<<"1">>}, {<<"0">>}, {<<"-", "1">>}}

NextSimilar ==
    \/ \E row \in {PlainCompound(nextCompoundId)} : CreateCompound(row)
    \/ \E c \in CompoundIdInputs : DeleteCompound(c)
    \/ \E t \in CompoundIdInputs, s \in CompoundIdInputs, score \in Scores :
          CreateSimilarity(t, s, score)
    \/ \E c \in CompoundIdInputs : InvalidateCompoundSimilarities(c)
    \/ \E c \in CompoundIdInputs, min_score \in MinScoreTexts, limit \in LimitTexts :
          SimilarRequest(c, min_score, limit)
    \/ Deliver

\* The similarity store and the similar-compound endpoints.
SpecSimilar == Init /\ [][NextSimilar]_vars

\* ---- bulk creation of compounds ----
\* the row collides with a stored row on one of the unique indexes
Collides(rows, row) ==
    \E c \in DOMAIN rows :
        \/ rows[c].standard_name = row.standard_name
        \/ row.cid # NULL /\ rows[c].cid = row.cid

\* the table rows with row stored under id
Stored(rows, id, row) ==
    [c \in DOMAIN rows \cup {id} |-> IF c = id THEN row ELSE rows[c]]

\* the loop of CompoundBulkCreateSerializer.create: one
\* Compound.objects.create per item, each its own statement; the loop ends
\* at the first item the unique indexes refuse (IntegrityError), the rows
\* written before it staying written
RECURSIVE BulkCreateLoop(_, _, _)
BulkCreateLoop(batch, rows, next) ==
    IF batch = <<>> THEN [rows |-> rows, next |-> next, raised |-> FALSE]
    ELSE IF Collides(rows, Head(batch)) THEN [rows |-> rows, next |-> next, raised |-> TRUE]
    ELSE BulkCreateLoop(Tail(batch), Stored(rows, next, Head(batch)), next + 1)

\* is_valid() then save() of CompoundBulkCreateSerializer: every item is
\* validated by CompoundCreateSerializer against the stored rows, then the
\* loop runs
BulkCreateCompounds(batch) ==
    /\ Ready
    /\ nextCompoundId + Len(batch) - 1 <= MaxCompounds
    /\ IF \E i \in 1..Len(batch) : CreateCompoundError(batch[i]) # ""
       THEN /\ UNCHANGED <<compounds, compoundRows, nextCompoundId>>
            /\ lastOp' = Op("bulk_create", 0, 400,
                            CreateCompoundError(batch[CHOOSE i \in 1..Len(batch) :
                                                        CreateCompoundError(batch[i]) # ""]))
       ELSE LET done == BulkCreateLoop(batch, compoundRows, nextCompoundId)
            IN /\ compoundRows' = done.rows
               /\ compounds' = DOMAIN done.rows
               /\ nextCompoundId' = done.next
               /\ lastOp' = [Op("bulk_create", 0, IF done.raised THEN 500 ELSE 201,
                                IF done.raised THEN "IntegrityError" ELSE "")
                                EXCEPT !.touched = done.next - nextCompoundId]
    /\ UNCHANGED <<sims, products, productRows, nextProductId, ingredients, aside>>

\* the items clients send and the batches made of them
BulkNames == {<<"a", "a">>, <<"b", "b">>, <<"c", "c">>}
BulkRows == {Compound(name, cid, NULL, NULL, NULL, NULL) : name \in BulkNames, cid \in {NULL, {5}}}
Batches == {<<row>> : row \in BulkRows} \cup {<<r1, r2>> : r1 \in BulkRows, r2 \in BulkRows}

NextBulk ==
    \/ \E row \in BulkRows : CreateCompound(row)
    \/ \E batch \in Batches : BulkCreateCompounds(batch)
    \/ \E c \in CompoundIdInputs : DeleteCompound(c)
    \/ Deliver

\* Compounds created one at a time and in batches.
SpecBulk == Init /\ [][NextBulk]_vars

\* ---- invalidation beside the other tables ----
\* bodies of PATCH /similarities/{id}/ that relabel a row
LabelBodies == [fingerprint_method : {"MACCS"}]

NextInvalidate ==
    \/ \E row \in {PlainCompound(nextCompoundId)} : CreateCompound(row)
    \/ \E t \in CompoundIdInputs, s \in CompoundIdInputs, score \in {Max(Scores)} :
          t < s /\ CreateSimilarity(t, s, score)
    \/ \E r \in sims, body \in LabelBodies : UpdateSimilarity(r, body)
    \/ \E c \in CompoundIdInputs : InvalidateCompoundSimilarities(c)
    \/ \E row \in {PlainProduct(nextProductId)} : CreateProduct(row)
    \/ \E p \in ProductIdInputs : CreateIngredient(p, NULL, "aspirin", "SUCCESS")
    \/ Deliver

\* Similarity rows with their labels, invalidated beside products and
\* ingredient mappings.
SpecInvalidate == Init /\ [][NextInvalidate]_vars

\* ---- compounds created and then updated ----
\* the rows clients create and the bodies they update them with
UpdateNames == {<<"a", "b">>, <<"c", "d">>}
UpdateRows == {Compound(name, cid, NULL, NULL, NULL, NULL) : name \in UpdateNames, cid \in {NULL, {7}}}
CompoundBodies ==
    [standard_name : UpdateNames \cup {<<>>, <<"a">>}] \cup [cid : {NULL, {0}, {0 - 1}, {7}, {8}}]

NextUpdates ==
    \/ \E row \in UpdateRows : CreateCompound(row)
    \/ \E c \in CompoundIdInputs, body \in CompoundBodies : UpdateCompound(c, body)
    \/ Deliver

\* Compounds under create, update and partial update.
SpecUpdates == Init /\ [][NextUpdates]_vars

\* ---- products under update ----
\* Meta.fields of a ProductUpdateSerializer that lets the permit number in
ProductWritableWithPermit == {"product_name", "permit_number", "manufacturer", "is_combination"}

\* Meta.fields of ProductUpdateSerializer: the fields a request can write
ProductWritable == {"product_name", "manufacturer", "is_combination"}

\* PUT/PATCH /products/{id}/ : a field of the body that the serializer does
\* not declare is dropped; a blank product_name is refused by its CharField;
\* the declared fields of the body are written to the row
UpdateProduct(p, body) ==
    /\ Ready
    /\ p \in products
    /\ IF "product_name" \in DOMAIN body /\ Len(body.product_name) = 0
       THEN /\ UNCHANGED productRows
            /\ lastOp' = Op("update_product", p, 400, "product_name_blank")
       ELSE /\ productRows' =
                   [productRows EXCEPT ![p] =
                       [f \in DOMAIN productRows[p] |->
                           IF f \in ProductWritable /\ f \in DOMAIN body
                           THEN body[f] ELSE productRows[p][f]]]
            /\ lastOp' = Op("update_product", p, 200, "")
    /\ UNCHANGED <<compounds, compoundRows, nextCompoundId, sims, products,
                   nextProductId, ingredients, aside>>

\* the bodies clients send: declared fields, alone or with a permit number,
\* a source and a synchronisation time
ProductBodies ==
    [manufacturer : {NULL, {<<"A", "c">>}}]
    \cup [is_combination : {TRUE}, permit_number : {<<"7">>, <<"9">>}]
    \cup [product_name : {<<>>, <<"q">>}, permit_number : {<<"9">>},
          source : {"X"}, last_synced_at : {{1}}]

NextProductUpdates ==
    \/ \E row \in {PlainProduct(nextProductId)} : CreateProduct(row)
    \/ \E p \in ProductIdInputs, body \in ProductBodies : UpdateProduct(p, body)
    \/ \E p \in ProductIdInputs : DeleteProduct(p)
    \/ Deliver

\* Products under create, update, partial update and delete.
SpecProductUpdates == Init /\ [][NextProductUpdates]_vars

\* ---- statistics computed while other requests write ----
\* Every count of a statistics record is a query of its own, run in the
\* order of the code against the rows committed at that moment; no
\* transaction encloses them, so other requests may write between two of
\* them.  A computation in flight is a request in pending that holds the
\* values read so far.
StatisticsQueries(kind) ==
    CASE kind = "compound_statistics" ->
             <<"total", "valid", "with_cid", "with_structure", "under_200", "200_to_500",
               "500_to_1000", "over_1000", "unknown">>
      [] kind = "similarity_statistics" ->
             <<"total", "current", "average", "0.9_to_1.0", "0.8_to_0.9", "0.7_to_0.8",
               "below_0.7", "methods">>
      [] kind = "product_statistics" -> <<"total", "combination", "top_manufacturers">>

StatisticsKinds == {"compound_statistics", "similarity_statistics", "product_statistics"}

\* values('manufacturer').annotate(product_count=Count('id')): the number
\* of products of each manufacturer
TopManufacturers ==
    [m \in {productRows[p].manufacturer : p \in products} |->
        Cardinality({p \in products : productRows[p].manufacturer = m})]

\* the value a query returns in the current state
Query(kind, name) ==
    CASE kind = "compound_statistics" ->
             (CASE name = "total" -> Cardinality(compounds)
                [] name = "valid" -> Cardinality({c \in compounds : compoundRows[c].is_valid})
                [] name = "with_cid" -> Cardinality({c \in compounds : compoundRows[c].cid # NULL})
                [] name = "with_structure" -> Cardinality(WithStructure)
                [] name = "under_200" -> Cardinality(Under200)
                [] name = "200_to_500" -> Cardinality(From200To500)
                [] name = "500_to_1000" -> Cardinality(From500To1000)
                [] name = "over_1000" -> Cardinality(Over1000)
                [] name = "unknown" -> Cardinality(UnknownWeight))
      [] kind = "similarity_statistics" ->
             (CASE name = "total" -> Cardinality(sims)
                [] name = "current" -> Cardinality({r \in sims : r.is_current})
                [] name = "average" -> AverageScore
                [] name = "0.9_to_1.0" -> Cardinality(ScoreOver90)
                [] name = "0.8_to_0.9" -> Cardinality(Score80To90)
                [] name = "0.7_to_0.8" -> Cardinality(Score70To80)
                [] name = "below_0.7" -> Cardinality(ScoreBelow70)
                [] name = "methods" -> MethodDistribution)
      [] kind = "product_statistics" ->
             (CASE name = "total" -> Cardinality(products)
                [] name = "combination" ->
                       Cardinality({p \in products : productRows[p].is_combination})
                [] name = "top_manufacturers" -> TopManufacturers)

\* the request enters the handler, which runs its first query
BeginStatistics(k, kind) ==
    /\ Free(k)
    /\ pending' = pending \cup
           {[by |-> k, kind |-> kind,
             reads |-> <<Query(kind, StatisticsQueries(kind)[1])>>]}
    /\ UNCHANGED <<compounds, compoundRows, nextCompoundId, sims, products, productRows,
                   nextProductId, ingredients, scope, lastOp>>

\* the handler runs its next query
ReadStatistics(req) ==
    /\ req \in pending
    /\ req.kind \in StatisticsKinds
    /\ Len(req.reads) < Len(StatisticsQueries(req.kind))
    /\ pending' = (pending \ {req}) \cup
           {[req EXCEPT !.reads =
                Append(@, Query(req.kind, StatisticsQueries(req.kind)[Len(req.reads) + 1]))]}
    /\ UNCHANGED <<compounds, compoundRows, nextCompoundId, sims, products, productRows,
                   nextProductId, ingredients, scope, lastOp>>

\* the value a finished computation read for a query
ReadOf(req, name) ==
    req.reads[CHOOSE i \in 1..Len(StatisticsQueries(req.kind)) :
                 StatisticsQueries(req.kind)[i] = name]

\* the record the handler builds from the values it read
StatisticsRecord(req) ==
    CASE req.kind = "compound_statistics" ->
             [total |-> ReadOf(req, "total"),
              valid_compounds |-> ReadOf(req, "valid"),
              invalid_compounds |-> ReadOf(req, "total") - ReadOf(req, "valid"),
              buckets |-> ReadOf(req, "under_200") + ReadOf(req, "200_to_500") +
                          ReadOf(req, "500_to_1000") + ReadOf(req, "over_1000") +
                          ReadOf(req, "unknown")]
      [] req.kind = "similarity_statistics" ->
             [total |-> ReadOf(req, "total"),
              current_analyses |-> ReadOf(req, "current"),
              buckets |-> ReadOf(req, "0.9_to_1.0") + ReadOf(req, "0.8_to_0.9") +
                          ReadOf(req, "0.7_to_0.8") + ReadOf(req, "below_0.7")]
      [] req.kind = "product_statistics" ->
             [total |-> ReadOf(req, "total"),
              combination_products |-> ReadOf(req, "combination"),
              single_products |-> ReadOf(req, "total") - ReadOf(req, "combination")]

Finished(req) ==
    req.kind \in StatisticsKinds /\ Len(req.reads) = Len(StatisticsQueries(req.kind))

\* the handler answers with the record
RespondStatistics(req) ==
    /\ Ready
    /\ req \in pending
    /\ Finished(req)
    /\ pending' = pending \ {req}
    /\ lastOp' = [Op(req.kind, 0, 200, "") EXCEPT !.touched = StatisticsRecord(req).total]
    /\ UNCHANGED <<compounds, compoundRows, nextCompoundId, sims, products, productRows,
                   nextProductId, ingredients, scope>>

\* the client that asks for statistics; the other requests are those of the
\* writers
StatisticsClient == "a"

NextStatisticsRace ==
    \/ \E row \in {PlainCompound(nextCompoundId)} : CreateCompound(row)
    \/ \E t \in CompoundIdInputs, s \in CompoundIdInputs, score \in {Max(Scores)} :
          t < s /\ CreateSimilarity(t, s, score)
    \/ \E r \in sims : DestroySimilarity(r)
    \/ \E c \in CompoundIdInputs : InvalidateCompoundSimilarities(c)
    \/ \E row \in {PlainProduct(nextProductId)} : CreateProduct(row)
    \/ \E p \in ProductIdInputs : UpdateProduct(p, [is_combination |-> TRUE])
    \/ \E kind \in StatisticsKinds : BeginStatistics(StatisticsClient, kind)
    \/ \E req \in pending : ReadStatistics(req)
    \/ \E req \in pending : RespondStatistics(req)
    \/ Deliver

\* The three statistics computations beside the requests that write.
SpecStatisticsRace == Init /\ [][NextStatisticsRace]_vars

\* the step writes a new value to smiles or inchi of compound c
StructureChanged(c) ==
    /\ c \in compounds
    /\ c \in compounds'
    /\ \/ compoundRows'[c].smiles # compoundRows[c].smiles
       \/ compoundRows'[c].inchi # compoundRows[c].inchi

\* C11 as stated: once an update has changed smiles or inchi of a compound,
\* no similarity row that has the compound as target or comparison side is
\* current.
C11_StructureChangeInvalidates ==
    [][(lastOp'.op = "update_compound" /\ StructureChanged(lastOp'.a)) =>
          \A r \in sims' : Involves(r, lastOp'.a) => ~ r.is_current]_vars

\* the name search takes compound c for an exact match of the trimmed query
IsExact(c, query) == Lower(compoundRows[c].standard_name) = Lower(query)

\* the name or the systematic name of compound c contains the trimmed query
IsPartial(c, query) ==
    \/ Contains(Lower(compoundRows[c].standard_name), Lower(query))
    \/ /\ compoundRows[c].iupac_name # NULL
       /\ \E t \in compoundRows[c].iupac_name : Contains(Lower(t), Lower(query))

\* C12: when the request is taken up in any state of the store, a name search
\* with a query that is not blank returns exactly the compounds whose name
\* equals the trimmed query up to case and the compounds whose name or
\* systematic name contains it up to case, each once, every exact match
\* before every other match.
C12_NameSearchExactThenPartial ==
    Ready => \A q \in QueryInputs :
        Len(Strip(q)) > 0 =>
            /\ SearchCompounds(q, <<"n", "a", "m", "e">>) # {}
            /\ \A o \in SearchCompounds(q, <<"n", "a", "m", "e">>) :
                  LET n == Len(o.results)
                      returned == {o.results[i] : i \in 1..n}
                  IN /\ ~ o.raised
                     /\ returned =
                           {c \in compounds :
                               IsExact(c, Strip(q)) \/ IsPartial(c, Strip(q))}
                     /\ Cardinality(returned) = n
                     /\ \A i, j \in 1..n :
                           (/\ IsExact(o.results[i], Strip(q))
                            /\ ~ IsExact(o.results[j], Strip(q))) => i < j

\* a padded query in another case has two exact matches that differ in case
\* and a partial match through the systematic name
C12_Witness ==
    \E o \in SearchCompounds(<<" ", "A", "S", " ">>, <<"n", "a", "m", "e">>) :
        /\ Len(o.results) = 3
        /\ IsExact(o.results[1], <<"a", "s">>)
        /\ IsExact(o.results[2], <<"a", "s">>)
        /\ ~ IsExact(o.results[3], <<"a", "s">>)
        /\ ~ Contains(Lower(compoundRows[o.results[3]].standard_name), <<"a", "s">>)

\* the request carries a blank query, or asks for a cid that is no integer
BadSearch(q, search_type) ==
    \/ Len(Strip(q)) = 0
    \/ Lower(search_type) = <<"c", "i", "d">> /\ ~ ParsesAsInt(Strip(q))

\* C13: a search whose trimmed query is empty, whatever the search type, or
\* whose type is cid with a query that is no integer, raises ValueError in
\* search_compounds, is answered 400 with no result list, and changes no table.
C13_SearchRejectsBadInput ==
    [][lastOp'.op = "search" =>
          \A q \in QueryInputs, search_type \in TypeInputs :
              (BadSearch(q, search_type) /\ SearchRequest(q, search_type)) =>
                  /\ \A o \in SearchCompounds(q, search_type) :
                        o.raised /\ o.results = <<>>
                  /\ lastOp'.ret = 400
                  /\ lastOp'.touched = 0
                  /\ UNCHANGED <<compounds, compoundRows, nextCompoundId, sims,
                                 products, productRows, ingredients>>]_vars

\* a cid search for a text that is no integer has been answered 400 while
\* compounds are stored
C13_Witness ==
    /\ lastOp.op = "search"
    /\ lastOp.ret = 400
    /\ lastOp.detail = "cid_not_integer"
    /\ compounds # {}

\* the create request for row must fail by the rules of the claim
MustFail(row) ==
    \/ \E c \in compounds : compoundRows[c].standard_name = row.standard_name
    \/ \E c \in compounds : row.cid # NULL /\ compoundRows[c].cid = row.cid
    \/ \E v \in row.cid : v <= 0

\* C14: a create request whose standard_name is the name of a stored compound,
\* whose cid is the cid of a stored compound, or whose cid is <= 0, is
\* answered 400 and changes no table; a request without cid that breaks no
\* other rule is answered 201 and its row is stored with a null cid.
C14_CreateCompoundValidation ==
    [][lastOp'.op = "create_compound" =>
          \A row \in SearchRows :
              CreateCompound(row) =>
                  /\ MustFail(row) =>
                        /\ lastOp'.ret = 400
                        /\ UNCHANGED <<compounds, compoundRows, nextCompoundId, sims,
                                       products, productRows, ingredients>>
                  /\ (/\ row.cid = NULL
                      /\ Len(row.standard_name) >= 2
                      /\ ~ \E c \in compounds :
                              compoundRows[c].standard_name = row.standard_name) =>
                        /\ lastOp'.ret = 201
                        /\ lastOp'.a \in compounds' \ compounds
                        /\ compoundRows'[lastOp'.a] = row]_vars

\* a request with the cid of a stored compound has been refused, and a
\* compound without cid is stored
C14_Witness ==
    /\ lastOp.op = "create_compound"
    /\ lastOp.ret = 400
    /\ lastOp.detail = "cid_exists"
    /\ \E c \in compounds : compoundRows[c].cid = NULL

\* C15: in every state concurrent create and update requests can reach, no
\* two compounds share a standard_name, no two compounds share a cid that is
\* not null, and no two products share a permit_number.
C15_UniquenessUnderConcurrency ==
    /\ \A c1, c2 \in compounds :
          c1 # c2 =>
              /\ compoundRows[c1].standard_name # compoundRows[c2].standard_name
              /\ compoundRows[c1].cid # NULL => compoundRows[c1].cid # compoundRows[c2].cid
    /\ \A p1, p2 \in products :
          p1 # p2 => productRows[p1].permit_number # productRows[p2].permit_number

\* a request that had passed validation lost the race: its write was refused
\* by a unique index while the other client's request is still in flight
C15_Witness ==
    /\ lastOp.ret = 500
    /\ lastOp.op = "update_compound"
    /\ pending # {}
    /\ Cardinality(compounds) >= 2

\* C16 as stated: has_structure_data() of a compound is true exactly when
\* its smiles is not empty and its fingerprint blob is not null, a blob of
\* length 0 included.
C16_HasStructureDataIff ==
    \A c \in compounds :
        HasStructureData(compoundRows[c]) <=>
            /\ compoundRows[c].smiles # NULL
            /\ compoundRows[c].smiles # {<<>>}
            /\ compoundRows[c].fingerprint_morgan # NULL

\* the number of the five weight buckets whose condition compound c meets
WeightBucketsOf(c) ==
    LET w == compoundRows[c].molecular_weight
    IN Cardinality(
        {b \in {"under_200", "200_to_500", "500_to_1000", "over_1000", "unknown"} :
            \/ b = "under_200" /\ \E x \in w : x < 200 * WeightScale
            \/ b = "200_to_500" /\ \E x \in w : 200 * WeightScale <= x /\ x < 500 * WeightScale
            \/ b = "500_to_1000" /\ \E x \in w : 500 * WeightScale <= x /\ x < 1000 * WeightScale
            \/ b = "over_1000" /\ \E x \in w : x >= 1000 * WeightScale
            \/ b = "unknown" /\ w = NULL})

\* C18: when the request is taken up in any state of the store, each weight
\* bucket of the compound statistics counts the compounds that meet its
\* condition, every compound meets the condition of exactly one bucket, and
\* the five counts sum to total_compounds.
C18_WeightBucketsPartition ==
    Ready =>
        LET d == CompoundStatistics.weight_distribution
            weight(c) == compoundRows[c].molecular_weight
        IN /\ d["under_200"] =
                 Cardinality({c \in compounds : \E x \in weight(c) : x < 200 * WeightScale})
           /\ d["200_to_500"] =
                 Cardinality({c \in compounds : \E x \in weight(c) :
                                 200 * WeightScale <= x /\ x < 500 * WeightScale})
           /\ d["500_to_1000"] =
                 Cardinality({c \in compounds : \E x \in weight(c) :
                                 500 * WeightScale <= x /\ x < 1000 * WeightScale})
           /\ d["over_1000"] =
                 Cardinality({c \in compounds : \E x \in weight(c) : x >= 1000 * WeightScale})
           /\ d["unknown"] = Cardinality({c \in compounds : weight(c) = NULL})
           /\ \A c \in compounds : WeightBucketsOf(c) = 1
           /\ d["under_200"] + d["200_to_500"] + d["500_to_1000"] + d["over_1000"] +
              d["unknown"] = CompoundStatistics.total_compounds

\* the statistics have been requested for a table that holds a compound of
\* weight exactly 200, one of weight just under 200 and one without weight
C18_Witness ==
    /\ lastOp.op = "compound_statistics"
    /\ lastOp.touched = 3
    /\ \E c \in compounds : compoundRows[c].molecular_weight = {200 * WeightScale}
    /\ \E c \in compounds : compoundRows[c].molecular_weight = {200 * WeightScale - 1}
    /\ \E c \in compounds : compoundRows[c].molecular_weight = NULL

\* the number of the four score buckets whose condition row r meets
ScoreBucketsOf(r) ==
    Cardinality(
        {b \in {"0.9_to_1.0", "0.8_to_0.9", "0.7_to_0.8", "below_0.7"} :
            \/ b = "0.9_to_1.0" /\ r.similarity_score >= 90
            \/ b = "0.8_to_0.9" /\ 80 <= r.similarity_score /\ r.similarity_score < 90
            \/ b = "0.7_to_0.8" /\ 70 <= r.similarity_score /\ r.similarity_score < 80
            \/ b = "below_0.7" /\ r.similarity_score < 70})

\* C17: when the request is taken up in any state of the store, each score
\* bucket of the similarity statistics counts the rows, stale ones included,
\* that meet its half-open condition, every row meets the condition of
\* exactly one bucket, and the four counts sum to total_analyses.
C17_ScoreBucketsPartition ==
    Ready =>
        LET d == SimilarityStatistics.score_distribution
        IN /\ d["0.9_to_1.0"] = Cardinality({r \in sims : r.similarity_score >= 90})
           /\ d["0.8_to_0.9"] =
                 Cardinality({r \in sims : 80 <= r.similarity_score /\ r.similarity_score < 90})
           /\ d["0.7_to_0.8"] =
                 Cardinality({r \in sims : 70 <= r.similarity_score /\ r.similarity_score < 80})
           /\ d["below_0.7"] = Cardinality({r \in sims : r.similarity_score < 70})
           /\ \A r \in sims : ScoreBucketsOf(r) = 1
           /\ d["0.9_to_1.0"] + d["0.8_to_0.9"] + d["0.7_to_0.8"] + d["below_0.7"] =
              SimilarityStatistics.total_analyses
           /\ SimilarityStatistics.total_analyses = Cardinality(sims)

\* the statistics have been requested for a table that holds a stale row of
\* score exactly 0.9 and a current row of score just under it
C17_Witness ==
    /\ lastOp.op = "similarity_statistics"
    /\ lastOp.touched = 2
    /\ \E r \in sims : r.similarity_score = 90 /\ ~ r.is_current
    /\ \E r \in sims : r.similarity_score = 89 /\ r.is_current

\* the column a boolean parameter of the compound list filters on
Flag(name, r) ==
    CASE name = "is_valid" -> r.is_valid
      [] name = "has_cid" -> r.cid # NULL
      [] name = "has_structure" ->
             r.smiles # NULL /\ r.smiles # {<<>>} /\ r.fingerprint_morgan # NULL

\* the compound list with one boolean parameter given as value
ListedBy(name, value) ==
    ListCompounds(scope.rows, [NoCompoundQuery EXCEPT ![name] = value])

\* the product list with is_combination given as value
ProductsListedBy(value) ==
    ListProducts(scope.rows, [NoProductQuery EXCEPT !.is_combination = value])

\* C19: a boolean query parameter that is absent parses to null and applies
\* no filter; a present one parses to true exactly when its lower-cased text
\* is "true", "1" or "yes" and to false for every other text, the empty text
\* included; so, over the table a list request has just been answered from,
\* the list with the parameter absent and the list with an explicit false
\* differ as soon as a row has the flag set.
C19_BooleanParameters ==
    /\ ParseBool(NULL) = NULL
    /\ \A t \in BoolTexts :
          ParseBool({t}) = IF Lower(t) \in TrueTexts THEN {TRUE} ELSE {FALSE}
    /\ ParseBool({<<>>}) = {FALSE}
    /\ lastOp.op = "list_compounds" =>
          \A name \in {"is_valid", "has_structure", "has_cid"} :
             /\ ListedBy(name, NULL) = [raised |-> FALSE, rows |-> scope.rows]
             /\ \A t \in BoolTexts :
                   ListedBy(name, {t}).rows
                     = {r \in scope.rows : Flag(name, r) <=> Lower(t) \in TrueTexts}
             /\ (\E r \in scope.rows : Flag(name, r)) =>
                   ListedBy(name, NULL).rows # ListedBy(name, {<<"f", "a", "l", "s", "e">>}).rows
    /\ lastOp.op = "list_products" =>
          /\ ProductsListedBy(NULL) = scope.rows
          /\ \A t \in BoolTexts :
                ProductsListedBy({t})
                  = {r \in scope.rows : r.is_combination <=> Lower(t) \in TrueTexts}
          /\ (\E r \in scope.rows : r.is_combination) =>
                ProductsListedBy(NULL) # ProductsListedBy({<<"f", "a", "l", "s", "e">>})

\* a compound list answered with fewer rows than the table holds, over a
\* table where an explicit false on is_valid and its absence select
\* different rows
C19_Witness ==
    /\ scope.table = "compounds"
    /\ lastOp.op = "list_compounds"
    /\ lastOp.ret = 200
    /\ lastOp.touched < Cardinality(scope.rows)
    /\ ListedBy("is_valid", {<<"f", "a", "l", "s", "e">>}).rows # {}
    /\ ListedBy("is_valid", {<<"f", "a", "l", "s", "e">>}).rows # ListedBy("is_valid", NULL).rows

\* C20: a call of a filtering service answers without error whatever the
\* size of its result, and over the queryset it was handed the result for
\* any parameter object is the intersection of the results of each of its
\* parameters applied alone, the object with every field omitted returning
\* the queryset unchanged.
C20_FiltersAreIndependentConjuncts ==
    lastOp.op = "filter" =>
        /\ lastOp.ret = 200
        /\ \A params \in ParamInputs(scope.table) :
              /\ Filter(scope.table, scope.rows, params)
                   = {r \in scope.rows :
                        \A f \in DOMAIN params :
                           r \in Filter(scope.table, scope.rows, Only(params, f))}
              /\ Filter(scope.table, scope.rows, Omitted(params)) = scope.rows

\* a filter call answered with no row, over a queryset of two rows and
\* parameters each of which alone selects some row
C20_Witness ==
    /\ lastOp.op = "filter"
    /\ lastOp.touched = 0
    /\ Cardinality(scope.rows) = 2
    /\ \E params \in ParamInputs(scope.table) :
          /\ Filter(scope.table, scope.rows, params) = {}
          /\ \A f \in DOMAIN params :
                Filter(scope.table, scope.rows, Only(params, f)) # {}
          /\ \E f \in DOMAIN params :
                Filter(scope.table, scope.rows, Only(params, f)) # scope.rows

\* C21: on the similar-compound endpoints a min_score that does not parse
\* falls back to 0.7 and a limit that does not parse falls back to 10, and a
\* request for a stored compound answers with a result whatever the values
\* of the two parameters.
C21_SimilarNeverErrors ==
    /\ \A v \in {{<<>>}, {<<"x">>}} :
          ParseMinScore(v) = DefaultMinScore /\ ParseLimit(v) = DefaultLimit
    /\ (lastOp.op = "similar" /\ lastOp.a \in compounds) => lastOp.ret = 200

\* C22: a list request of compounds or of similarities answers 200 or 400
\* whatever the texts of its numeric parameters; it never ends in an
\* unhandled error.
C22_ListNeverErrors ==
    lastOp.op \in {"list_compounds", "list_analyses"} => lastOp.ret \in {200, 400}

\* C23: after a bulk creation returns or fails, every compound of the batch
\* is stored or none of them is.
C23_BulkCreateAllOrNothing ==
    [][\A batch \in Batches :
          BulkCreateCompounds(batch) =>
              \/ compoundRows' = compoundRows
              \/ Cardinality(compounds' \ compounds) = Len(batch)]_vars

\* C24: no step of the similarity API changes is_current of an existing
\* similarity row from false to true.
C24_StalenessMonotonic ==
    [][\A r \in sims : \A r2 \in sims' :
          (SamePair(r, r2) /\ ~ r.is_current) => ~ r2.is_current]_vars

\* the columns of a similarity row other than is_current
Labels(r) == [f \in DOMAIN r \ {"is_current"} |-> r[f]]

\* C25: invalidate_compound_similarities(c) changes nothing but is_current
\* of rows involving c: the rows stay the same rows with the same endpoints,
\* score and method label, rows that do not involve c keep their flag, and
\* compounds, products and ingredient mappings are unchanged; for a c that
\* is no stored compound the call returns 0 and changes nothing.
C25_InvalidateFrame ==
    [][\A c \in CompoundIdInputs :
          InvalidateCompoundSimilarities(c) =>
              /\ {Labels(r) : r \in sims'} = {Labels(r) : r \in sims}
              /\ Cardinality(sims') = Cardinality(sims)
              /\ \A r \in sims : ~ Involves(r, c) => r \in sims'
              /\ UNCHANGED <<compounds, compoundRows, nextCompoundId, products,
                             productRows, nextProductId, ingredients>>
              /\ c \notin compounds => (lastOp'.ret = 0 /\ sims' = sims)]_vars

\* an invalidation that marked a relabelled row stale while a current row of
\* other compounds, a product and an ingredient mapping were stored
C25_Witness ==
    /\ lastOp.op = "invalidate"
    /\ lastOp.ret >= 1
    /\ \E r \in sims : Involves(r, lastOp.a) /\ ~ r.is_current /\ r.fingerprint_method = "MACCS"
    /\ \E r \in sims : ~ Involves(r, lastOp.a) /\ r.is_current
    /\ products # {}
    /\ ingredients # {}

\* get_similar_compounds(c, m, n) returns the empty list for every m and n,
\* and get_similar_compounds of no other compound returns c
SilentFor(c) ==
    \A m \in MinScoreInputs, l \in 0..(MaxSimilarities + 1) :
        /\ \A o \in GetSimilarCompounds(c, m, l) : o.results = <<>>
        /\ \A d \in compounds \ {c} : \A o \in GetSimilarCompounds(d, m, l) :
              \A i \in 1..Len(o.results) : o.results[i].id # c

\* the step stores a similarity row involving c that was not stored before
NewRowFor(c) ==
    \E r2 \in sims' : Involves(r2, c) /\ ~ \E r \in sims : SamePair(r, r2)

\* C26: invalidate_compound_similarities(c) leaves compound c silent
\* (get_similar_compounds(c, m, n) empty for every m and n, c in no result
\* of another compound), and a silent compound stays silent over every step
\* that stores no new similarity row involving it.  An invalidation of a
\* silent compound changes no row, so the silent states are the states the
\* claim speaks of.
C26_SilentUntilNewRow ==
    [][\A c \in CompoundIdInputs :
          (InvalidateCompoundSimilarities(c) \/ (SilentFor(c) /\ ~ NewRowFor(c)))
              => SilentFor(c)']_vars

\* C27: in every state of the store, no two entries of a result list of
\* get_similar_compounds(c, min_score, limit) carry the same compound id.
C27_ResultNamesCompoundOnce ==
    \A c \in compounds, m \in MinScoreInputs, l \in 0..(MaxSimilarities + 1) :
        \A o \in GetSimilarCompounds(c, m, l) :
            \A i, j \in 1..Len(o.results) :
                i # j => o.results[i].id # o.results[j].id

\* C28: after any sequence of compound create, update and partial-update
\* requests every stored cid is null or positive and every stored
\* standard_name has at least 2 characters.
C28_StoredCompoundsValid ==
    \A c \in compounds :
        /\ \A v \in compoundRows[c].cid : v > 0
        /\ Len(compoundRows[c].standard_name) >= 2

\* C29: no step changes permit_number, source or last_synced_at of a product
\* that stays stored, whatever the body of an update carries; a product keeps
\* the permit number it was created with until it is deleted.
C29_PermitNumberImmutable ==
    [][\A p \in products \cap products' :
          /\ productRows'[p].permit_number = productRows[p].permit_number
          /\ productRows'[p].source = productRows[p].source
          /\ productRows'[p].last_synced_at = productRows[p].last_synced_at]_vars

\* an accepted update that has written fields of a product while a second
\* product is stored
C29_Witness ==
    /\ lastOp.op = "update_product"
    /\ lastOp.ret = 200
    /\ lastOp.a \in products
    /\ productRows[lastOp.a].is_combination
    /\ productRows[lastOp.a].product_name = <<"q">>
    /\ Cardinality(products) = 2

\* C30: the record of a statistics computation is consistent whatever other
\* requests wrote while it ran: invalid_compounds and single_products are
\* not negative, valid_compounds <= total_compounds, current_analyses <=
\* total_analyses, and the bucket counts sum to the reported total.
C30_StatisticsConsistent ==
    \A req \in pending :
        Finished(req) =>
            LET record == StatisticsRecord(req)
            IN CASE req.kind = "compound_statistics" ->
                        /\ record.invalid_compounds >= 0
                        /\ record.valid_compounds <= record.total
                        /\ record.buckets = record.total
                 [] req.kind = "similarity_statistics" ->
                        /\ record.current_analyses <= record.total
                        /\ record.buckets = record.total
                 [] req.kind = "product_statistics" -> record.single_products >= 0

====
